---------------------------- MODULE StreamingProofs ----------------------------
(***************************************************************************)
(* What the writers and the readers of Streaming promise, for every number *)
(* of threads, every content, chunk size and way of cutting the input: a   *)
(* published file is whole (PublishedWhole), no byte is lost between the   *)
(* buffer and the pending chunks (IngestLossless), the answer Ok(version)  *)
(* is that version's publication (AnswersInForce), a reader made for the   *)
(* file it finds returns what was published (ReadersExact), and a decoder  *)
(* hands out the bytes that follow its position (DecoderExact).            *)
(*                                                                         *)
(* The strengthening (Inductive) says what a writer holds at each of its   *)
(* stages: ids nobody else uses, which no store knows before the writer    *)
(* inserts them; the chunks of its data; then the same chunks in the       *)
(* store, with the corrections, up to the entry it publishes.  A reader    *)
(* and a decoder hold an entry that was published and whose chunks are     *)
(* still there, and a decoder stands in those chunks where its counters    *)
(* say (InStep).                                                           *)
(***************************************************************************)
EXTENDS Streaming, SequenceTheorems, WellFoundedInduction, TLAPS

Chunk == Seq(Bytes \cup {Envelope})

WriteKinds == {"stream", "large", "compressed", "holographic"}
WritePCs == {"begin", "feed", "insert", "corrVersion", "correct", "publish", "bundle"}

WriteCall ==
  [pc : WritePCs, kind : WriteKinds, path : Paths, data : Contents, expected : Nat \cup {None},
   size : Nat \ {0}, zip : BOOLEAN, fed : Nat, buffer : Seq(Bytes), pending : Seq(Chunk),
   ids : Seq(Nat), storeVer : Nat, corrVer : Nat]

Publications == [content : Contents, chunks : Seq(Nat), deleted : BOOLEAN]

\* The variables of the system, the stores and the history.
Typed ==
  /\ files \in [Paths -> Entry \cup {None}]
  /\ log \in [Paths -> Seq(Publications)]
  /\ call = [t \in Threads |-> call[t]]
  /\ nextId \in Nat \ {0} /\ storeVersion \in Nat /\ corrVersion \in Nat
  /\ holographic \in BOOLEAN
  /\ DOMAIN store \cup DOMAIN corr \cup root \subseteq 1..(nextId - 1)
  /\ \A t \in Threads : call[t].pc \in PCs

\* The ids a call will still put into a store.
Owned(c) == IF c.pc \in {"feed", "insert", "corrVersion", "correct"} THEN ToSet(c.ids) ELSE {}

\* No id is used twice.
Fresh ==
  /\ \A t \in Threads : \A id \in Owned(call[t]) :
       /\ id \in 1..(nextId - 1) /\ id \notin DOMAIN corr
       /\ call[t].pc \in {"feed", "insert"} => id \notin DOMAIN store
  /\ \A t, u \in Threads : t # u => Owned(call[t]) \cap Owned(call[u]) = {}

\* The bytes in each chunk of a list, compressed or not.
Plain(zip, chunks) == [i \in DOMAIN chunks |-> IF zip THEN Unwrap(chunks[i]) ELSE chunks[i]]

\* The encoding a writer uses while the filesystem is in mode hol.
EncodingIn(hol, c) == IF c.kind = "holographic" \/ hol THEN 1 ELSE 0

\* The store holds the chunks under the ids, in the encoding.
InStore(ids, chunks, format, st) ==
  \A i \in 1..Len(ids) :
    ids[i] \in DOMAIN st /\ st[ids[i]] = [bytes |-> chunks[i], format |-> format]

\* The corrections restore the chunks.
InCorr(ids, chunks, co) == \A i \in 1..Len(ids) : ids[i] \in DOMAIN co /\ co[ids[i]] = chunks[i]

\* No id is there twice.
Distinct(ids) == \A i, j \in 1..Len(ids) : ids[i] = ids[j] => i = j

\* Every chunk is an envelope of its own.
EachWrapped(chunks) == \A i \in DOMAIN chunks : chunks[i] = Wrap(Unwrap(chunks[i]))

\* What is compressed, and how: a stream chunk by chunk, the rest as a whole.
Sealed(c) ==
  /\ c.pc = "feed" => c.kind = "stream"
  /\ c.pc = "begin" => c.kind \in {"compressed", "holographic"}
  /\ c.zip => c.kind \in {"stream", "compressed"}
  /\ c.zip /\ c.kind = "stream" => EachWrapped(c.pending)
  /\ c.zip /\ c.kind = "compressed" /\ c.pc # "begin" => Join(c.pending) = Wrap(c.data)

VersionOf(c) == IF c.expected = None THEN 0 ELSE c.expected + 1

\* What the path was published as under the version.
InLog(p, v, data, ids, lg) ==
  v + 1 \in 1..Len(lg[p]) /\ lg[p][v + 1] = [content |-> data, chunks |-> ids, deleted |-> FALSE]

\* A write call, from its first step to its answer.
WriterOK(c, hol, st, co, lg) ==
  /\ c \in WriteCall
  /\ Len(c.ids) = Len(c.pending)
  /\ Distinct(c.ids)
  /\ Sealed(c)
  /\ c.pc = "begin" => c.ids = <<>> /\ c.pending = <<>>
  /\ c.pc = "feed" =>
       /\ c.fed <= Len(c.data) /\ Len(c.buffer) < c.size
       /\ Join(Plain(c.zip, c.pending)) \o c.buffer = SubSeq(c.data, 1, c.fed)
  /\ c.pc \notin {"begin", "feed"} => Join(Plain(c.zip, c.pending)) = c.data
  /\ c.pc \in {"corrVersion", "correct", "publish", "bundle"} =>
       InStore(c.ids, c.pending, EncodingIn(hol, c), st)
  /\ c.pc \in {"publish", "bundle"} => InCorr(c.ids, c.pending, co)
  /\ c.pc = "bundle" => InLog(c.path, VersionOf(c), c.data, c.ids, lg)

\* A write call that was answered.
AnswerOK(c, lg, rt) ==
  /\ c.path \in Paths /\ c.version \in Nat
  /\ InLog(c.path, c.version, c.data, c.ids, lg) /\ ToSet(c.ids) \subseteq rt

\* The bytes of an entry's chunks.
BytesOf(e, st) == [i \in DOMAIN e.chunks |-> st[e.chunks[i]].bytes]

\* The stores hold what the entry stands for.
ChunksHeld(e, st, co) ==
  \A i \in DOMAIN e.chunks : LET id == e.chunks[i] IN
    /\ id \in DOMAIN st /\ id \in DOMAIN co
    /\ st[id].bytes \in Chunk /\ st[id].format = e.format /\ co[id] = st[id].bytes

\* An uncompressed file has as many bytes as its entry says; a compressed one
\* whose chunks are as many bytes as its entry says was compressed as a whole.
Measured(e, chunks, content) ==
  IF e.zip THEN e.size = Len(Join(chunks)) => Unwrap(Join(chunks)) = content
           ELSE e.size = Len(content)

EntryHolds(e, content, st, co) ==
  /\ ChunksHeld(e, st, co)
  /\ Join(Plain(e.zip, BytesOf(e, st))) = content
  /\ Measured(e, BytesOf(e, st), content)

\* What the path was published as under the version of the entry.
ContentIn(lg, p, e) == lg[p][e.version + 1].content

\* A reader holds an entry that was published, and the chunks are still there.
ReaderHas(c, st, co, lg) ==
  /\ c.path \in Paths /\ c.entry \in Entry /\ c.entry.version + 1 \in 1..Len(lg[c.path])
  /\ EntryHolds(c.entry, ContentIn(lg, c.path, c.entry), st, co)

ReadKinds == {"read_file", "read_range", "read_holographic"}

RequestOK(c) == c.kind \in ReadKinds /\ c.from \in Nat /\ c.n \in Nat

\* The chunks have the given size, but the last may be smaller.
Even(chunks, size) == \A i \in DOMAIN chunks :
  IF i < Len(chunks) THEN Len(chunks[i]) = size ELSE Len(chunks[i]) <= size

\* MadeFor, of the chunks.
Suits(kind, e, chunks) ==
  CASE kind = "read_file" -> Even(chunks, DefaultSize) /\ e.size = Len(Join(chunks))
    [] kind = "read_range" -> e.format = 0 /\ ~e.zip
    [] kind = "read_holographic" -> e.format = 1 /\ ~e.zip /\ Even(chunks, ReversibleSize)

\* What the reader returned is what was published.
ResultOK(c, st, lg) ==
  Suits(c.kind, c.entry, BytesOf(c.entry, st)) =>
    LET was == ContentIn(lg, c.path, c.entry)
    IN c.data = IF c.kind = "read_range" THEN Slice(was, c.from, c.n) ELSE was

DecodeCall ==
  [pc : {"decode"}, kind : {"decode"}, path : Paths, entry : Entry, idx : Nat, chunk : Chunk,
   at : Nat, total : Nat, start : Nat, out : Chunk, exact : BOOLEAN, whole : BOOLEAN,
   broken : {FALSE}, uses : Nat]

\* The chunks up to each one, joined.
UpTo(chunks) ==
  LET upto[i \in 0..Len(chunks)] == IF i = 0 THEN <<>> ELSE upto[i - 1] \o chunks[i]
  IN upto

\* A decoder has handed out the bytes from its start to its position, and
\* what is left of the chunk in hand comes next.
InStep(d, chunks) ==
  /\ d.idx <= Len(chunks) /\ d.at <= Len(d.chunk)
  /\ d.chunk = <<>> \/ (d.idx > 0 /\ d.chunk = chunks[d.idx])
  /\ d.total + Len(d.chunk) = Len(UpTo(chunks)[d.idx]) + d.at
  /\ d.total = d.start + Len(d.out)
  /\ d.out = SubSeq(Join(chunks), d.start + 1, d.total)

\* An open decoder.
DecoderOK(d, st, co, lg) ==
  /\ d \in DecodeCall /\ ReaderHas(d, st, co, lg)
  /\ ~d.entry.zip /\ d.exact /\ d.whole => InStep(d, BytesOf(d.entry, st))

CallOK(c, hol, st, co, lg, rt) ==
  /\ c.pc \in WritePCs => WriterOK(c, hol, st, co, lg)
  /\ c.pc = "ok" /\ "version" \in DOMAIN c => AnswerOK(c, lg, rt)
  /\ c.pc = "read" => ReaderHas(c, st, co, lg) /\ RequestOK(c)
  /\ c.pc = "ok" /\ "entry" \in DOMAIN c => ReaderHas(c, st, co, lg) /\ RequestOK(c) /\ ResultOK(c, st, lg)
  /\ c.pc = "decode" => DecoderOK(c, st, co, lg)

CallsOK == \A t \in Threads : CallOK(call[t], holographic, store, corr, log, root)

FilesHold ==
  \A p \in Paths :
    IF files[p] = None THEN log[p] = <<>>
    ELSE /\ Len(log[p]) = files[p].version + 1
         /\ ~files[p].deleted => EntryHolds(files[p], Last(log[p]).content, store, corr)

Inductive == Typed /\ Fresh /\ CallsOK /\ FilesHold
-----------------------------------------------------------------------------
(* Numbers and sequences *)

\* A set of naturals that is not empty has a least element: the induction of
\* the lemmas on Join and on the decoder's loop.
LEMMA LeastNat ==
  ASSUME NEW T, T \subseteq Nat, T # {}
  PROVE  \E x \in T : \A y \in T : x <= y
<1> DEFINE R == OpToRel(<, Nat)
<1>1. IsWellFoundedOn(R, Nat)
  BY NatLessThanWellFounded
<1>2. \A x, y \in Nat : <<y, x>> \in R <=> y < x
  BY DEF OpToRel
<1> HIDE DEF R
<1>3. PICK x \in T : \A y \in T : ~ (<<y, x>> \in R)
  BY <1>1, WFMin
<1>4. x \in Nat /\ \A y \in T : y \in Nat /\ ~ (y < x)
  BY <1>2, <1>3, Zenon
<1> HIDE <1>2, <1>3
<1> QED BY <1>4

\* Induction up to n, as a fact about a set.
LEMMA Climb ==
  ASSUME NEW n \in Nat, NEW G, 0 \in G, \A i \in 1..n : i - 1 \in G => i \in G
  PROVE  \A i \in 0..n : i \in G
<1> SUFFICES ASSUME NEW k \in 0..n, k \notin G PROVE FALSE
  OBVIOUS
<1> DEFINE T == {i \in 0..n : i \notin G}
<1>1. T \subseteq Nat /\ T # {}
  OBVIOUS
<1> HIDE DEF T
<1>2. PICK x \in T : \A y \in T : x <= y
  BY <1>1, LeastNat
<1>3. x \in 0..n /\ x \notin G
  BY DEF T
<1>4. x \in 1..n /\ x - 1 \in 0..n /\ ~ (x <= x - 1)
  BY <1>3
<1>5. x - 1 \in G
  BY <1>2, <1>4 DEF T
<1> QED BY <1>3, <1>4, <1>5

\* Division rounded down, and the multiples below a number.
LEMMA Division ==
  ASSUME NEW n \in Nat, NEW d \in Nat \ {0}
  PROVE  /\ n \div d \in Nat /\ (n \div d) * d \in Nat
         /\ (n \div d) * d <= n /\ n < (n \div d) * d + d
<1> DEFINE q == n \div d
           m == q * d
           r == n % d
<1>1. q \in Nat /\ n = m + r /\ r \in 0..(d - 1)
  BY Z3
<1>2. m \in Nat
  BY <1>1
<1> HIDE DEF q, m, r
<1>3. m <= n /\ n < m + d
  BY <1>1, <1>2
<1> QED BY <1>1, <1>2, <1>3 DEF q, m

LEMMA DividesExactly ==
  ASSUME NEW n \in Nat, NEW d \in Nat \ {0}, n % d = 0
  PROVE  n \div d \in Nat /\ (n \div d) * d = n
<1> DEFINE q == n \div d
           m == q * d
           r == n % d
<1>1. q \in Nat /\ n = m + r /\ r = 0
  BY Z3
<1>2. m \in Nat
  BY <1>1
<1> HIDE DEF q, m, r
<1>3. m = n
  BY <1>1, <1>2
<1> QED BY <1>1, <1>3 DEF q, m

\* Division rounded up: so many pieces of d cover n, and no fewer.
LEMMA RoundedUp ==
  ASSUME NEW n \in Nat, NEW d \in Nat \ {0}
  PROVE  LET k == CeilDiv(n, d)
         IN  /\ k \in Nat /\ n <= k * d
             /\ \A j \in Nat : j < k => j * d \in Nat /\ j * d < n
<1> DEFINE k == CeilDiv(n, d)
           m == k * d
           x == n + d - 1
<1>1. x \in Nat
  OBVIOUS
<1>2. k \in Nat /\ m \in Nat /\ m <= x /\ x < m + d
  <2>1. k = x \div d
    BY DEF CeilDiv
  <2> HIDE DEF x, k
  <2> QED BY <1>1, <2>1, Division
<1>3. n <= m /\ m < n + d
  <2> HIDE DEF m, k
  <2> QED BY <1>2
<1>4. ASSUME NEW j \in Nat, j < k PROVE j * d \in Nat /\ j * d < n
  <2> HIDE DEF k
  <2>1. j * d \in Nat /\ (j + 1) * d = j * d + d
    OBVIOUS
  <2>2. PICK i \in Nat : k = (j + 1) + i
    <3>1. k - (j + 1) \in Nat /\ k = (j + 1) + (k - (j + 1))
      BY <1>2, <1>4
    <3> QED BY <3>1
  <2>3. m = (j * d + d) + i * d /\ i * d \in Nat
    BY <2>1, <2>2
  <2> HIDE DEF m
  <2> DEFINE a == j * d
             b == i * d
  <2>4. a \in Nat /\ b \in Nat /\ m = (a + d) + b
    BY <2>1, <2>3
  <2> HIDE DEF a, b
  <2>5. a < n
    BY <1>2, <1>3, <2>4
  <2> QED BY <2>1, <2>5 DEF a
<1> QED BY <1>2, <1>3, <1>4

\* A function on 1..n is a sequence.
LEMMA SeqOfFunction ==
  ASSUME NEW S, NEW n \in Nat, NEW f \in [1..n -> S]
  PROVE  f \in Seq(S) /\ Len(f) = n /\ DOMAIN f = 1..n
OBVIOUS

\* Two sequences of lengths m and n, one after the other.
Concatenates(S, a, b, m, n) ==
  /\ a \o b \in Seq(S) /\ Len(a \o b) = m + n
  /\ \A i \in 1..(m + n) : (a \o b)[i] = IF i <= m THEN a[i] ELSE b[i - m]

LEMMA ConcatAt ==
  ASSUME NEW S, NEW a \in Seq(S), NEW b \in Seq(S), NEW m, NEW n, Len(a) = m, Len(b) = n
  PROVE  Concatenates(S, a, b, m, n)
BY ConcatProperties DEF Concatenates

\* Two ways to put three sequences one after the other.
Regroups(x, y, z) == (x \o y) \o z = x \o (y \o z)

LEMMA Regrouped ==
  ASSUME NEW S, NEW x \in Seq(S), NEW y \in Seq(S), NEW z \in Seq(S) PROVE Regroups(x, y, z)
BY ConcatAssociative DEF Regroups

\* h has the equations of Join's function, up to n.
Accumulates(h, seqs, n) ==
  /\ h = [i \in 0..n |-> h[i]] /\ h[0] = <<>>
  /\ \A i \in 1..n : h[i] = h[i - 1] \o seqs[i]

\* Such a function is Join's, up to its last value.
LEMMA JoinBy ==
  ASSUME NEW seqs, NEW n \in Nat, Len(seqs) = n, NEW h, Accumulates(h, seqs, n)
  PROVE  Join(seqs) = h[n]
<1>0. /\ h = [i \in 0..n |-> h[i]] /\ h[0] = <<>>
      /\ \A i \in 1..n : h[i] = h[i - 1] \o seqs[i]
  BY DEF Accumulates
<1> DEFINE Step(g) == [i \in 0..Len(seqs) |-> IF i = 0 THEN <<>> ELSE g[i - 1] \o seqs[i]]
           upto == CHOOSE g : g = Step(g)
<1>1. Join(seqs) = upto[n]
  BY DEF Join
<1>2. h = Step(h)
  <2>1. \A i \in 0..n : h[i] = Step(h)[i]
    BY <1>0
  <2>2. Step(h) = [i \in 0..n |-> Step(h)[i]]
    OBVIOUS
  <2> HIDE DEF Step
  <2>3. [i \in 0..n |-> h[i]] = [i \in 0..n |-> Step(h)[i]]
    BY <2>1
  <2> QED BY <1>0, <2>2, <2>3
<1>3. upto = Step(upto)
  <2> HIDE DEF Step
  <2> QED BY <1>2
<1>4. upto[0] = <<>> /\ \A i \in 1..n : upto[i] = upto[i - 1] \o seqs[i]
  <2> HIDE DEF upto
  <2>1. \A i \in 0..n : upto[i] = IF i = 0 THEN <<>> ELSE upto[i - 1] \o seqs[i]
    BY <1>3
  <2>2. 0 \in 0..n /\ \A i \in 1..n : i \in 0..n /\ i # 0
    OBVIOUS
  <2> HIDE DEF Step
  <2> QED BY <2>1, <2>2
<1> HIDE DEF upto, Step
<1>5. ASSUME upto[n] # h[n] PROVE FALSE
  <2> DEFINE T == {i \in 0..n : upto[i] # h[i]}
  <2>1. T \subseteq Nat /\ T # {}
    BY <1>5
  <2> HIDE DEF T
  <2>2. PICK x \in T : \A y \in T : x <= y
    BY <2>1, LeastNat
  <2>3. x \in 0..n /\ upto[x] # h[x] /\ x # 0
    BY <1>0, <1>4 DEF T
  <2>4. x \in 1..n /\ x - 1 \in 0..n /\ ~ (x <= x - 1)
    BY <2>3
  <2>5. upto[x - 1] = h[x - 1]
    BY <2>2, <2>4 DEF T
  <2>6. upto[x] = upto[x - 1] \o seqs[x] /\ h[x] = h[x - 1] \o seqs[x]
    BY <1>0, <1>4, <2>4
  <2> QED BY <2>3, <2>5, <2>6
<1> QED BY <1>1, <1>5

\* There is such a function for every list of sequences.
LEMMA JoinExists ==
  ASSUME NEW S, NEW seqs \in Seq(Seq(S))
  PROVE  \E h : /\ h = [i \in 0..Len(seqs) |-> h[i]] /\ h[0] = <<>>
                /\ \A i \in 1..Len(seqs) : h[i] = h[i - 1] \o seqs[i]
                /\ \A i \in 0..Len(seqs) : h[i] \in Seq(S)
<1> DEFINE Good(n, h) == /\ h = [i \in 0..n |-> h[i]] /\ h[0] = <<>>
                         /\ \A i \in 1..n : h[i] = h[i - 1] \o seqs[i]
                         /\ \A i \in 0..n : h[i] \in Seq(S)
           T == {n \in 0..Len(seqs) : ~ \E h : Good(n, h)}
<1>1. Len(seqs) \in Nat
  BY LenProperties
<1>2. Len(seqs) \in 0..Len(seqs) /\ 0..Len(seqs) \subseteq Nat
  BY <1>1
<1> SUFFICES ASSUME T # {} PROVE FALSE
  <2>1. T = {} => \E h : Good(Len(seqs), h)
    <3> HIDE DEF Good
    <3> QED BY <1>2
  <2> QED BY <2>1
<1>3. PICK n \in T : \A m \in T : n <= m
  <2>1. T \subseteq Nat
    <3> HIDE DEF Good
    <3> QED BY <1>2
  <2> HIDE DEF T
  <2> QED BY <2>1, LeastNat
<1>4. n \in 0..Len(seqs) /\ ~ \E h : Good(n, h)
  <2> HIDE DEF Good
  <2> QED OBVIOUS
<1>5. \A m \in 0..Len(seqs) : ~ (n <= m) => \E h : Good(m, h)
  <2> HIDE DEF Good
  <2> QED BY <1>3
<1> HIDE DEF T
<1>6. n # 0
  <2> DEFINE h == [i \in 0..0 |-> <<>>]
  <2>1. Good(0, h)
    <3>1. <<>> \in Seq(S)
      BY EmptySeq
    <3> QED BY <3>1
  <2> HIDE DEF Good, h
  <2> QED BY <1>4, <2>1
<1>7. n \in 1..Len(seqs) /\ n - 1 \in 0..Len(seqs) /\ ~ (n <= n - 1)
  BY <1>1, <1>6, <1>4
<1>8. PICK h : Good(n - 1, h)
  <2> HIDE DEF Good
  <2> QED BY <1>5, <1>7
<1>9. /\ h[0] = <<>> /\ \A i \in 1..(n - 1) : h[i] = h[i - 1] \o seqs[i]
      /\ \A i \in 0..(n - 1) : h[i] \in Seq(S)
  BY <1>8
<1> DEFINE last == h[n - 1] \o seqs[n]
           g == [i \in 0..n |-> IF i = n THEN last ELSE h[i]]
<1>10. last \in Seq(S)
  <2>1. h[n - 1] \in Seq(S) /\ seqs[n] \in Seq(S)
    BY <1>1, <1>7, <1>9, ElementOfSeq
  <2> QED BY <2>1, ConcatProperties
<1>11. Good(n, g)
  <2>1. \A i \in 0..n : g[i] = IF i = n THEN last ELSE h[i]
    OBVIOUS
  <2>2. g = [i \in 0..n |-> g[i]]
    OBVIOUS
  <2> HIDE DEF g
  <2>3. n \in Nat /\ 0 \in 0..n /\ n # 0 /\ \A i \in 0..n : i # n => i \in 0..(n - 1)
    BY <1>7
  <2>4. g[0] = <<>> /\ \A i \in 0..n : g[i] \in Seq(S)
    <3> HIDE DEF last
    <3> QED BY <1>9, <1>10, <2>1, <2>3
  <2>5. ASSUME NEW i \in 1..n PROVE g[i] = g[i - 1] \o seqs[i]
    <3>1. i \in Nat /\ i - 1 \in 0..(n - 1) /\ i \in 0..n /\ i - 1 \in 0..n /\ i - 1 # n
      BY <1>7
    <3>2. g[i - 1] = h[i - 1]
      BY <2>1, <3>1
    <3>3. CASE i = n
      BY <2>1, <3>1, <3>2, <3>3
    <3>4. CASE i # n
      <4>1. i \in 1..(n - 1)
        BY <1>7, <3>4
      <4> QED BY <1>9, <2>1, <3>1, <3>2, <3>4, <4>1
    <3> QED BY <3>3, <3>4
  <2> QED BY <2>2, <2>4, <2>5
<1> HIDE DEF Good, g
<1> QED BY <1>4, <1>11

\* Joining one list after another.
LEMMA JoinConcat ==
  ASSUME NEW S, NEW a \in Seq(Seq(S)), NEW b \in Seq(Seq(S))
  PROVE  Join(a \o b) = Join(a) \o Join(b) /\ Join(a) \in Seq(S) /\ Join(b) \in Seq(S)
<1> DEFINE m == Len(a)
           n == Len(b)
           ab == a \o b
<1>1. m \in Nat /\ n \in Nat /\ Len(ab) = m + n /\ m + n \in Nat
  BY LenProperties, ConcatProperties
<1>2. /\ \A i \in 1..m : ab[i] = a[i]
      /\ \A i \in (m + 1)..(m + n) : ab[i] = b[i - m]
  BY ConcatProperties
<1>3. PICK f : /\ f = [i \in 0..m |-> f[i]] /\ f[0] = <<>>
               /\ \A i \in 1..m : f[i] = f[i - 1] \o a[i]
               /\ \A i \in 0..m : f[i] \in Seq(S)
  BY JoinExists
<1>4. PICK g : /\ g = [i \in 0..n |-> g[i]] /\ g[0] = <<>>
               /\ \A i \in 1..n : g[i] = g[i - 1] \o b[i]
               /\ \A i \in 0..n : g[i] \in Seq(S)
  BY JoinExists
<1>5. Join(a) = f[m] /\ Join(b) = g[n]
  <2>1. Join(a) = f[m]
    <3> HIDE DEF m
    <3>1. m \in Nat /\ Len(a) = m
      BY <1>1 DEF m
    <3>2. Accumulates(f, a, m)
      BY <1>3 DEF Accumulates
    <3> QED BY <3>1, <3>2, JoinBy
  <2>2. Join(b) = g[n]
    <3> HIDE DEF n
    <3>1. n \in Nat /\ Len(b) = n
      BY <1>1 DEF n
    <3>2. Accumulates(g, b, n)
      BY <1>4 DEF Accumulates
    <3> QED BY <3>1, <3>2, JoinBy
  <2> QED BY <2>1, <2>2
<1> HIDE DEF m, n, ab
<1>6. /\ f[0] = <<>> /\ \A i \in 1..m : f[i] = f[i - 1] \o a[i]
      /\ \A i \in 0..m : f[i] \in Seq(S)
  BY <1>3
<1>7. /\ g[0] = <<>> /\ \A i \in 1..n : g[i] = g[i - 1] \o b[i]
      /\ \A i \in 0..n : g[i] \in Seq(S)
  BY <1>4
<1>8. f[m] \in Seq(S) /\ g[n] \in Seq(S)
  BY <1>1, <1>6, <1>7
<1> DEFINE h == [i \in 0..(m + n) |-> IF i <= m THEN f[i] ELSE f[m] \o g[i - m]]
<1>9. \A i \in 0..(m + n) : h[i] = IF i <= m THEN f[i] ELSE f[m] \o g[i - m]
  OBVIOUS
<1>10. h = [i \in 0..(m + n) |-> h[i]]
  OBVIOUS
<1> HIDE DEF h
<1>11. h[0] = <<>>
  <2>1. 0 \in 0..(m + n) /\ 0 <= m
    BY <1>1
  <2> QED BY <1>6, <1>9, <2>1
<1>12. ASSUME NEW i \in 1..(m + n) PROVE h[i] = h[i - 1] \o ab[i]
  <2>1. i \in 0..(m + n) /\ i - 1 \in 0..(m + n) /\ i \in Nat
    BY <1>1
  <2>2. CASE i <= m
    <3>1. i \in 1..m /\ i - 1 <= m
      BY <1>1, <2>1, <2>2
    <3>2. h[i] = f[i] /\ h[i - 1] = f[i - 1] /\ ab[i] = a[i]
      BY <1>2, <1>9, <2>1, <2>2, <3>1
    <3> QED BY <1>6, <3>1, <3>2
  <2>3. CASE i > m
    <3>1. /\ i - m \in 1..n /\ i \in (m + 1)..(m + n) /\ (i - m) - 1 = (i - 1) - m
          /\ (i - m) - 1 \in 0..n /\ i - m \in 0..n
      BY <1>1, <2>1, <2>3
    <3>2. h[i - 1] = f[m] \o g[(i - m) - 1]
      <4>1. CASE i - 1 = m
        <5>1. h[i - 1] = f[m] /\ (i - m) - 1 = 0
          BY <1>1, <1>9, <2>1, <4>1
        <5>2. f[m] \o <<>> = f[m]
          BY <1>8, ConcatEmptySeq
        <5> QED BY <1>7, <5>1, <5>2
      <4>2. CASE i - 1 # m
        <5>1. ~ (i - 1 <= m)
          BY <1>1, <2>1, <2>3, <4>2
        <5> QED BY <1>9, <2>1, <3>1, <5>1
      <4> QED BY <4>1, <4>2
    <3>3. h[i] = f[m] \o g[i - m] /\ g[i - m] = g[(i - m) - 1] \o b[i - m] /\ ab[i] = b[i - m]
      <4>1. ~ (i <= m)
        BY <1>1, <2>1, <2>3
      <4> QED BY <1>2, <1>7, <1>9, <2>1, <3>1, <4>1
    <3>4. b[i - m] \in Seq(S) /\ g[(i - m) - 1] \in Seq(S)
      BY <1>7, <3>1, ElementOfSeq DEF n
    <3>5. (f[m] \o g[(i - m) - 1]) \o b[i - m] = f[m] \o (g[(i - m) - 1] \o b[i - m])
      <4> DEFINE x == f[m]
                 y == g[(i - m) - 1]
                 z == b[i - m]
      <4>1. x \in Seq(S) /\ y \in Seq(S) /\ z \in Seq(S)
        BY <1>8, <3>4
      <4> HIDE DEF x, y, z
      <4>2. (x \o y) \o z = x \o (y \o z)
        <5>1. Regroups(x, y, z)
          BY <4>1, Regrouped
        <5> QED BY <5>1 DEF Regroups
      <4> QED BY <4>2 DEF x, y, z
    <3> QED BY <3>2, <3>3, <3>5
  <2> QED BY <1>1, <2>1, <2>2, <2>3
<1>13. Join(ab) = h[m + n]
  <2>1. Accumulates(h, ab, m + n)
    BY <1>10, <1>11, <1>12 DEF Accumulates
  <2> HIDE DEF ab
  <2> QED BY <1>1, <2>1, JoinBy
<1>14. h[m + n] = f[m] \o g[n]
  <2>1. CASE n = 0
    <3>1. m + n \in 0..(m + n) /\ m + n <= m /\ m + n = m
      BY <1>1, <2>1
    <3>2. h[m + n] = f[m] /\ g[n] = <<>>
      BY <1>7, <1>9, <2>1, <3>1
    <3> QED BY <1>8, <3>2, ConcatEmptySeq
  <2>2. CASE n # 0
    <3>1. ~ (m + n <= m) /\ m + n \in 0..(m + n) /\ (m + n) - m = n
      BY <1>1, <2>2
    <3> QED BY <1>9, <3>1
  <2> QED BY <2>1, <2>2
<1> QED BY <1>5, <1>8, <1>13, <1>14 DEF ab

\* UpTo has Join's equations, and ends in what Join gives.
Collects(S, seqs, u, n) ==
  /\ Len(seqs) = n /\ n \in Nat /\ Accumulates(u, seqs, n)
  /\ \A i \in 0..n : u[i] \in Seq(S)
  /\ Join(seqs) = u[n]

LEMMA UpToJoins ==
  ASSUME NEW S, NEW seqs \in Seq(Seq(S))
  PROVE  Collects(S, seqs, UpTo(seqs), Len(seqs))
<1> DEFINE n == Len(seqs)
           Step(g) == [i \in 0..Len(seqs) |-> IF i = 0 THEN <<>> ELSE g[i - 1] \o seqs[i]]
           upto == CHOOSE g : g = Step(g)
<1>1. UpTo(seqs) = upto /\ Join(seqs) = upto[n]
  BY DEF UpTo, Join
<1>2. n \in Nat
  BY LenProperties
<1>3. PICK h : /\ h = [i \in 0..n |-> h[i]] /\ h[0] = <<>>
               /\ \A i \in 1..n : h[i] = h[i - 1] \o seqs[i]
               /\ \A i \in 0..n : h[i] \in Seq(S)
  BY JoinExists
<1>4. h = Step(h)
  <2>1. ASSUME NEW i \in 0..n PROVE h[i] = IF i = 0 THEN <<>> ELSE h[i - 1] \o seqs[i]
    <3>1. i # 0 => i \in 1..n
      BY <1>2
    <3> QED BY <1>3, <3>1
  <2>2. [i \in 0..n |-> h[i]] = [i \in 0..n |-> IF i = 0 THEN <<>> ELSE h[i - 1] \o seqs[i]]
    BY <2>1
  <2> QED BY <1>3, <2>2
<1>5. upto = Step(upto)
  <2> HIDE DEF Step
  <2> QED BY <1>4
<1> HIDE DEF upto
<1>6. upto = [i \in 0..n |-> upto[i]]
  <2>1. DOMAIN Step(upto) = 0..n /\ Step(upto) = [i \in 0..n |-> Step(upto)[i]]
    OBVIOUS
  <2> HIDE DEF Step
  <2> QED BY <1>5, <2>1
<1>7. upto[0] = <<>> /\ \A i \in 1..n : upto[i] = upto[i - 1] \o seqs[i]
  <2>1. \A i \in 0..n : Step(upto)[i] = IF i = 0 THEN <<>> ELSE upto[i - 1] \o seqs[i]
    OBVIOUS
  <2>2. 0 \in 0..n /\ \A i \in 1..n : i \in 0..n /\ i # 0
    BY <1>2
  <2> HIDE DEF Step
  <2> QED BY <1>5, <2>1, <2>2
<1> HIDE DEF Step
<1>8. \A i \in 0..n : upto[i] = h[i]
  <2> DEFINE G == {i \in 0..n : upto[i] = h[i]}
  <2>1. 0 \in G
    BY <1>2, <1>3, <1>7
  <2>2. ASSUME NEW i \in 1..n, i - 1 \in G PROVE i \in G
    <3>1. i \in 0..n
      BY <1>2
    <3> QED BY <1>3, <1>7, <2>2, <3>1
  <2> HIDE DEF G
  <2>3. \A i \in 0..n : i \in G
    BY <1>2, <2>1, <2>2, Climb
  <2> QED BY <2>3 DEF G
<1>9. \A i \in 0..n : upto[i] \in Seq(S)
  BY <1>3, <1>8
<1>10. Accumulates(upto, seqs, n)
  BY <1>6, <1>7 DEF Accumulates
<1> QED BY <1>1, <1>2, <1>9, <1>10 DEF Collects

\* One round of the accumulation: what it adds, and where.
Extends(u, seqs, i) ==
  /\ Len(u[i - 1]) \in Nat /\ Len(seqs[i]) \in Nat /\ Len(u[i]) = Len(u[i - 1]) + Len(seqs[i])
  /\ \A k \in 1..Len(u[i - 1]) : u[i][k] = u[i - 1][k]
  /\ \A k \in 1..Len(seqs[i]) : u[i][Len(u[i - 1]) + k] = seqs[i][k]

LEMMA Extended ==
  ASSUME NEW S, NEW seqs \in Seq(Seq(S)), NEW u, NEW n, Collects(S, seqs, u, n), NEW i \in 1..n
  PROVE  Extends(u, seqs, i)
<1> DEFINE a == u[i - 1]
           b == seqs[i]
           c == u[i]
<1>1. n \in Nat /\ i - 1 \in 0..n /\ i \in 1..Len(seqs)
  BY DEF Collects
<1>2. a \in Seq(S) /\ b \in Seq(S)
  BY <1>1, ElementOfSeq DEF Collects
<1>3. c = a \o b
  BY DEF Collects, Accumulates
<1> DEFINE l == Len(a)
           m == Len(b)
<1>4. l \in Nat /\ m \in Nat
  BY <1>2, LenProperties
<1> HIDE DEF a, b, c
<1>5. Concatenates(S, a, b, l, m)
  <2>1. Len(a) = l /\ Len(b) = m
    OBVIOUS
  <2> HIDE DEF l, m
  <2> QED BY <1>2, <2>1, ConcatAt
<1>6. Len(c) = l + m /\ \A k \in 1..(l + m) : c[k] = IF k <= l THEN a[k] ELSE b[k - l]
  BY <1>3, <1>5 DEF Concatenates
<1> HIDE DEF l, m
<1>7. \A k \in 1..l : k \in 1..(l + m) /\ k <= l
  BY <1>4
<1>8. \A k \in 1..m : l + k \in 1..(l + m) /\ ~ (l + k <= l) /\ (l + k) - l = k
  BY <1>4
<1>9. /\ l \in Nat /\ m \in Nat /\ Len(c) = l + m
      /\ \A k \in 1..l : c[k] = a[k]
      /\ \A k \in 1..m : c[l + k] = b[k]
  BY <1>4, <1>6, <1>7, <1>8
<1> QED BY <1>9 DEF Extends, a, b, c, l, m

\* What is joined first comes first.
Begins(x, y) == Len(x) \in Nat /\ Len(y) \in Nat /\ Len(x) <= Len(y)
                /\ \A k \in 1..Len(x) : y[k] = x[k]

LEMMA UpToGrows ==
  ASSUME NEW S, NEW seqs \in Seq(Seq(S)), NEW u, NEW n, Collects(S, seqs, u, n), NEW j \in 0..n
  PROVE  Begins(u[j], Join(seqs))
<1>1. n \in Nat /\ Join(seqs) = u[n] /\ \A i \in 0..n : Len(u[i]) \in Nat
  BY LenProperties DEF Collects
<1> DEFINE G == {i \in 0..n : j <= i => Begins(u[j], u[i])}
<1>2. 0 \in G
  <2>1. j <= 0 => Begins(u[j], u[0])
    <3>1. j <= 0 => j = 0
      BY <1>1
    <3> QED BY <1>1, <3>1 DEF Begins
  <2> QED BY <1>1, <2>1
<1>3. ASSUME NEW i \in 1..n, i - 1 \in G PROVE i \in G
  <2>1. i \in 0..n /\ i - 1 \in 0..n /\ (j <= i - 1 => Begins(u[j], u[i - 1]))
    BY <1>1, <1>3
  <2>2. ASSUME j <= i PROVE Begins(u[j], u[i])
    <3>1. CASE j = i
      BY <1>1, <3>1 DEF Begins
    <3>2. CASE j # i
      <4>1. Begins(u[j], u[i - 1])
        BY <1>1, <2>1, <2>2, <3>2
      <4>2. Extends(u, seqs, i)
        BY Extended
      <4> DEFINE x == u[j]
                 y == u[i - 1]
                 z == u[i]
      <4>3. /\ Len(x) \in Nat /\ Len(y) \in Nat /\ Len(x) <= Len(y)
            /\ \A k \in 1..Len(x) : y[k] = x[k]
        BY <4>1 DEF Begins
      <4>4. /\ Len(z) \in Nat /\ Len(y) <= Len(z) /\ \A k \in 1..Len(y) : z[k] = y[k]
        <5> DEFINE w == seqs[i]
        <5>1. Len(y) \in Nat /\ Len(w) \in Nat /\ Len(z) = Len(y) + Len(w)
          BY <4>2 DEF Extends
        <5>2. \A k \in 1..Len(y) : z[k] = y[k]
          BY <4>2 DEF Extends
        <5> HIDE DEF y, z, w
        <5>3. Len(z) \in Nat /\ Len(y) <= Len(z)
          BY <5>1
        <5> QED BY <5>2, <5>3
      <4> HIDE DEF x, y, z
      <4>5. Len(x) <= Len(z) /\ \A k \in 1..Len(x) : z[k] = x[k]
        <5>1. \A k \in 1..Len(x) : k \in 1..Len(y)
          BY <4>3
        <5> QED BY <4>3, <4>4, <5>1
      <4>6. Begins(x, z)
        BY <4>3, <4>4, <4>5 DEF Begins
      <4> QED BY <4>6 DEF x, z
    <3> QED BY <3>1, <3>2
  <2> QED BY <2>1, <2>2
<1> HIDE DEF G
<1>4. \A i \in 0..n : i \in G
  BY <1>1, <1>2, <1>3, Climb
<1>5. n \in 0..n /\ j <= n
  BY <1>1
<1>6. Begins(u[j], u[n])
  BY <1>4, <1>5 DEF G
<1> QED BY <1>1, <1>6

\* The position of each chunk when all but the last have one size.
LEMMA EvenUpTo ==
  ASSUME NEW S, NEW seqs \in Seq(Seq(S)), NEW u, NEW n, Collects(S, seqs, u, n),
         NEW size \in Nat, Even(seqs, size)
  PROVE  /\ \A i \in 0..n : i < n => i * size \in Nat /\ Len(u[i]) = i * size
         /\ n > 0 => /\ (n - 1) * size \in Nat /\ Len(seqs[n]) \in 0..size
                     /\ Len(u[n]) = (n - 1) * size + Len(seqs[n])
<1>1. n \in Nat /\ Len(seqs) = n /\ DOMAIN seqs = 1..n
  BY LenProperties DEF Collects
<1>2. \A i \in 1..n : IF i < n THEN Len(seqs[i]) = size ELSE Len(seqs[i]) <= size
  BY <1>1 DEF Even
<1>3. \A i \in 1..n : /\ Len(u[i - 1]) \in Nat /\ Len(seqs[i]) \in Nat
                      /\ Len(u[i]) = Len(u[i - 1]) + Len(seqs[i])
  <2>1. \A i \in 1..n : Extends(u, seqs, i)
    BY Extended
  <2> QED BY <2>1 DEF Extends
<1>4. Len(u[0]) = 0
  BY EmptySeq DEF Collects, Accumulates
<1> DEFINE G == {i \in 0..n : i < n => i * size \in Nat /\ Len(u[i]) = i * size}
<1>5. 0 \in G
  <2>1. 0 * size = 0
    OBVIOUS
  <2> QED BY <1>1, <1>4, <2>1
<1>6. ASSUME NEW i \in 1..n, i - 1 \in G PROVE i \in G
  <2>1. i \in 0..n /\ i - 1 < n /\ i - 1 \in Nat /\ i \in Nat
    BY <1>1
  <2>2. (i - 1) * size \in Nat /\ Len(u[i - 1]) = (i - 1) * size
    BY <1>6, <2>1
  <2>3. i * size = (i - 1) * size + size
    BY <2>1
  <2> DEFINE a == (i - 1) * size
             b == i * size
  <2>4. a \in Nat /\ Len(u[i - 1]) = a /\ b = a + size
    BY <2>2, <2>3
  <2> HIDE DEF a, b
  <2>5. i < n => b \in Nat /\ Len(u[i]) = b
    <3> DEFINE x == Len(u[i])
               y == Len(u[i - 1])
               z == Len(seqs[i])
    <3>1. x = y + z /\ y = a /\ (i < n => z = size)
      BY <1>2, <1>3, <2>4
    <3> HIDE DEF x, y, z, G
    <3>2. i < n => x = b
      BY <2>4, <3>1
    <3>3. b \in Nat
      BY <2>4
    <3> QED BY <3>2, <3>3 DEF x
  <2> QED BY <2>1, <2>5 DEF b
<1> HIDE DEF G
<1>7. \A i \in 0..n : i \in G
  BY <1>1, <1>5, <1>6, Climb
<1>8. \A i \in 0..n : i < n => i * size \in Nat /\ Len(u[i]) = i * size
  BY <1>7 DEF G
<1>9. ASSUME n > 0
      PROVE  /\ (n - 1) * size \in Nat /\ Len(seqs[n]) \in 0..size
             /\ Len(u[n]) = (n - 1) * size + Len(seqs[n])
  <2>1. n \in 1..n /\ ~ (n < n) /\ n - 1 \in 0..n /\ n - 1 < n
    BY <1>1, <1>9
  <2>2. (n - 1) * size \in Nat /\ Len(u[n - 1]) = (n - 1) * size
    BY <1>8, <2>1
  <2>3. Len(seqs[n]) \in Nat /\ Len(seqs[n]) <= size /\ Len(u[n]) = Len(u[n - 1]) + Len(seqs[n])
    BY <1>2, <1>3, <2>1
  <2> QED BY <2>2, <2>3
<1> QED BY <1>8, <1>9

\* Lists that differ in what the last sequence of one has at its end.
LEMMA JoinPadded ==
  ASSUME NEW S, NEW a \in Seq(Seq(S)), NEW b \in Seq(Seq(S)), NEW n, Len(a) = n, Len(b) = n,
         n # 0, \A i \in 1..n : i < n => b[i] = a[i],
         NEW pad \in Seq(S), b[n] = a[n] \o pad
  PROVE  Join(b) = Join(a) \o pad
<1> DEFINE u == UpTo(a)
           v == UpTo(b)
<1>1. Collects(S, a, u, n) /\ Collects(S, b, v, n)
  BY UpToJoins
<1> HIDE DEF u, v
<1>2. n \in Nat /\ n \in 1..n /\ n - 1 \in 0..n /\ n - 1 < n
  BY <1>1 DEF Collects
<1>3. /\ u[0] = <<>> /\ \A i \in 1..n : u[i] = u[i - 1] \o a[i]
      /\ v[0] = <<>> /\ \A i \in 1..n : v[i] = v[i - 1] \o b[i]
  BY <1>1 DEF Collects, Accumulates
<1> DEFINE G == {i \in 0..n : i < n => v[i] = u[i]}
<1>4. 0 \in G
  BY <1>2, <1>3
<1>5. ASSUME NEW i \in 1..n, i - 1 \in G PROVE i \in G
  <2>1. i \in 0..n /\ i - 1 < n
    BY <1>2
  <2>2. v[i - 1] = u[i - 1]
    BY <1>5, <2>1
  <2> QED BY <1>3, <2>1, <2>2
<1> HIDE DEF G
<1>6. \A i \in 0..n : i \in G
  BY <1>2, <1>4, <1>5, Climb
<1>7. v[n - 1] = u[n - 1]
  BY <1>2, <1>6 DEF G
<1>8. u[n - 1] \in Seq(S) /\ a[n] \in Seq(S)
  BY <1>1, <1>2, ElementOfSeq DEF Collects
<1>9. v[n] = u[n] \o pad
  <2> DEFINE x == u[n - 1]
             y == a[n]
  <2>1. v[n] = x \o (y \o pad) /\ u[n] = x \o y
    BY <1>2, <1>3, <1>7
  <2>2. x \in Seq(S) /\ y \in Seq(S)
    BY <1>8
  <2> HIDE DEF x, y
  <2>3. Regroups(x, y, pad)
    BY <2>2, Regrouped
  <2> QED BY <2>1, <2>3 DEF Regroups
<1> QED BY <1>1, <1>9 DEF Collects

\* The sequences are the parts of d between growing positions, from its
\* beginning to its end.
Parts(seqs, d, k, p) ==
  /\ Len(seqs) = k /\ p[0] = 0 /\ p[k] = Len(d)
  /\ \A i \in 1..k : /\ p[i - 1] \in Nat /\ p[i] \in p[i - 1]..Len(d)
                     /\ seqs[i] = SubSeq(d, p[i - 1] + 1, p[i])

\* Such parts join to the sequence.
LEMMA JoinParts ==
  ASSUME NEW S, NEW d \in Seq(S), NEW k \in Nat, NEW seqs, NEW p, Parts(seqs, d, k, p)
  PROVE  Join(seqs) = d
<1> DEFINE h == [i \in 0..k |-> SubSeq(d, 1, p[i])]
<1>1. \A i \in 0..k : h[i] = SubSeq(d, 1, p[i])
  OBVIOUS
<1>2. h = [i \in 0..k |-> h[i]]
  OBVIOUS
<1> HIDE DEF h
<1>3. h[0] = <<>>
  <2>1. h[0] = SubSeq(d, 1, 0)
    BY <1>1 DEF Parts
  <2> QED BY <2>1, SubSeqEmpty
<1>4. ASSUME NEW i \in 1..k PROVE h[i] = h[i - 1] \o seqs[i]
  <2> DEFINE a == p[i - 1]
             b == p[i]
  <2>1. /\ a \in Nat /\ b \in a..Len(d) /\ seqs[i] = SubSeq(d, a + 1, b)
        /\ h[i] = SubSeq(d, 1, b) /\ h[i - 1] = SubSeq(d, 1, a)
    <3>1. i \in 0..k /\ i - 1 \in 0..k
      OBVIOUS
    <3> QED BY <1>1, <3>1 DEF Parts
  <2> HIDE DEF a, b
  <2>2. 1 \in 1..(Len(d) + 1) /\ a \in (1 - 1)..Len(d)
    <3>1. Len(d) \in Nat
      BY LenProperties
    <3> QED BY <2>1, <3>1
  <2>3. SubSeq(d, 1, a) \o SubSeq(d, a + 1, b) = SubSeq(d, 1, b)
    BY <2>1, <2>2, ConcatAdjacentSubSeq
  <2> QED BY <2>1, <2>3
<1>5. Join(seqs) = h[k]
  <2>1. Len(seqs) = k
    BY DEF Parts
  <2>2. Accumulates(h, seqs, k)
    BY <1>2, <1>3, <1>4 DEF Accumulates
  <2> QED BY <2>1, <2>2, JoinBy
<1>6. h[k] = SubSeq(d, 1, Len(d))
  BY <1>1 DEF Parts
<1> QED BY <1>5, <1>6, SubSeqFull

\* What chunks(n) cuts a sequence into.
CutInto(S, d, n, chunks, k) ==
  /\ k \in Nat /\ Len(d) \in Nat /\ k * n \in Nat /\ Len(d) <= k * n
  /\ chunks \in Seq(Seq(S)) /\ Len(chunks) = k /\ DOMAIN chunks = 1..k
  /\ \A i \in 1..k :
       /\ (i - 1) * n \in Nat /\ i * n = (i - 1) * n + n /\ (i - 1) * n < Len(d)
       /\ chunks[i] = SubSeq(d, (i - 1) * n + 1, MinOf(i * n, Len(d)))

LEMMA CutPieces ==
  ASSUME NEW S, NEW d \in Seq(S), NEW n \in Nat \ {0}
  PROVE  CutInto(S, d, n, Cut(d, n), CeilDiv(Len(d), n))
<1> DEFINE L == Len(d)
           k == CeilDiv(L, n)
<1>1. L \in Nat
  BY LenProperties
<1>2. k \in Nat /\ L <= k * n /\ \A j \in Nat : j < k => j * n \in Nat /\ j * n < L
  <2> HIDE DEF L
  <2> QED BY <1>1, RoundedUp
<1>3. k * n \in Nat
  <2> HIDE DEF k
  <2> QED BY <1>2
<1>4. \A i \in DOMAIN Cut(d, n) : Cut(d, n)[i] = Slice(d, (i - 1) * n, n)
  BY DEF Cut
<1>5. DOMAIN Cut(d, n) = 1..k /\ Cut(d, n) = [i \in 1..k |-> Cut(d, n)[i]]
  BY DEF Cut
<1> HIDE DEF k, L
<1>6. ASSUME NEW i \in 1..k
      PROVE  /\ (i - 1) * n \in Nat /\ i * n = (i - 1) * n + n /\ (i - 1) * n < L
             /\ Cut(d, n)[i] = SubSeq(d, (i - 1) * n + 1, MinOf(i * n, L))
             /\ Cut(d, n)[i] \in Seq(S)
  <2>1. i \in Nat /\ i - 1 \in Nat /\ i - 1 < k
    BY <1>2
  <2>2. (i - 1) * n \in Nat /\ (i - 1) * n < L
    BY <1>2, <2>1
  <2>3. i * n = (i - 1) * n + n
    BY <2>1
  <2>4. Cut(d, n)[i] = Slice(d, (i - 1) * n, n)
    BY <1>4, <1>5
  <2>5. Cut(d, n)[i] = SubSeq(d, (i - 1) * n + 1, MinOf(i * n, L))
    BY <2>3, <2>4 DEF Slice, L
  <2>6. Cut(d, n)[i] \in Seq(S)
    <3> DEFINE a == (i - 1) * n + 1
               b == MinOf(i * n, L)
    <3>1. a \in Nat /\ a >= 1
      BY <2>2
    <3>2. b \in Nat /\ b <= L
      <4> DEFINE x == i * n
      <4>1. x \in Nat
        BY <2>2, <2>3
      <4> HIDE DEF x
      <4>2. MinOf(x, L) \in Nat /\ MinOf(x, L) <= L
        BY <1>1, <4>1 DEF MinOf
      <4> QED BY <4>2 DEF x
    <3> HIDE DEF a, b
    <3>3. \A j \in a..b : d[j] \in S
      <4>1. \A j \in 1..Len(d) : d[j] \in S
        BY ElementOfSeq
      <4>2. a..b \subseteq 1..Len(d)
        BY <1>1, <3>1, <3>2 DEF L
      <4> QED BY <4>1, <4>2
    <3>4. SubSeq(d, a, b) \in Seq(S)
      BY <3>1, <3>2, <3>3, SubSeqProperties
    <3> QED BY <2>5, <3>4 DEF a, b
  <2> QED BY <2>2, <2>3, <2>5, <2>6
<1>7. Cut(d, n) \in [1..k -> Seq(S)]
  BY <1>5, <1>6
<1>8. Cut(d, n) \in Seq(Seq(S)) /\ Len(Cut(d, n)) = k
  <2> DEFINE f == Cut(d, n)
             T == Seq(S)
  <2>1. f \in [1..k -> T]
    BY <1>7
  <2> HIDE DEF f, T
  <2>2. f \in Seq(T) /\ Len(f) = k
    BY <1>2, <2>1
  <2> QED BY <2>2 DEF f, T
<1>9. /\ k \in Nat /\ L \in Nat /\ k * n \in Nat /\ L <= k * n
      /\ Cut(d, n) \in Seq(Seq(S)) /\ Len(Cut(d, n)) = k /\ DOMAIN Cut(d, n) = 1..k
      /\ \A i \in 1..k :
           /\ (i - 1) * n \in Nat /\ i * n = (i - 1) * n + n /\ (i - 1) * n < L
           /\ Cut(d, n)[i] = SubSeq(d, (i - 1) * n + 1, MinOf(i * n, L))
  BY <1>1, <1>2, <1>3, <1>5, <1>6, <1>8
<1> QED BY <1>9 DEF k, L, CutInto

\* The chunks of a content, one after the other, are the content.
LEMMA JoinCut ==
  ASSUME NEW S, NEW d \in Seq(S), NEW n \in Nat \ {0}
  PROVE  Join(Cut(d, n)) = d
<1> DEFINE L == Len(d)
           k == CeilDiv(L, n)
           p == [i \in 0..k |-> MinOf(i * n, L)]
<1>1. /\ k \in Nat /\ L \in Nat /\ k * n \in Nat /\ L <= k * n /\ Len(Cut(d, n)) = k
      /\ \A i \in 1..k :
           /\ (i - 1) * n \in Nat /\ i * n = (i - 1) * n + n /\ (i - 1) * n < L
           /\ Cut(d, n)[i] = SubSeq(d, (i - 1) * n + 1, MinOf(i * n, L))
  <2>1. CutInto(S, d, n, Cut(d, n), CeilDiv(Len(d), n))
    BY CutPieces
  <2> QED BY <2>1 DEF CutInto
<1> HIDE DEF L, k
<1>2. \A i \in 0..k : p[i] = MinOf(i * n, L)
  OBVIOUS
<1> HIDE DEF p
<1>3. \A x \in Nat : (x <= L => MinOf(x, L) = x) /\ (L <= x => MinOf(x, L) = L)
  BY <1>1 DEF MinOf
<1>4. p[0] = 0 /\ p[k] = L
  <2>1. 0 * n = 0 /\ 0 \in 0..k /\ k \in 0..k
    BY <1>1
  <2> QED BY <1>1, <1>2, <1>3, <2>1
<1>5. ASSUME NEW i \in 1..k
      PROVE  /\ p[i - 1] \in Nat /\ p[i] \in p[i - 1]..L
             /\ Cut(d, n)[i] = SubSeq(d, p[i - 1] + 1, p[i])
  <2> DEFINE a == (i - 1) * n
             b == i * n
  <2>1. /\ a \in Nat /\ b = a + n /\ a < L /\ Cut(d, n)[i] = SubSeq(d, a + 1, MinOf(b, L))
    BY <1>1
  <2>2. i \in 0..k /\ i - 1 \in 0..k
    BY <1>1
  <2>3. p[i] = MinOf(b, L) /\ p[i - 1] = MinOf(a, L)
    BY <1>2, <2>2
  <2> HIDE DEF a, b
  <2>4. MinOf(a, L) = a /\ MinOf(b, L) \in a..L
    BY <1>1, <2>1 DEF MinOf
  <2> QED BY <2>1, <2>3, <2>4
<1>6. Parts(Cut(d, n), d, k, p)
  BY <1>1, <1>4, <1>5 DEF Parts, L
<1> QED BY <1>1, <1>6, JoinParts

\* What is put into an envelope comes out of it, and bytes that are in none
\* stay as they are.
LEMMA Unwrapped ==
  /\ \A d \in Seq(Bytes) : Wrap(d) \in Chunk /\ Len(Wrap(d)) = Len(d) + 1 /\ Wrap(d)[1] = Envelope
  /\ \A d \in Seq(Bytes) : Unwrap(Wrap(d)) = d /\ Unwrap(d) = d
  /\ \A x \in Chunk : Unwrap(x) \in Chunk
<1> DEFINE S == Bytes \cup {Envelope}
<1>1. <<Envelope>> \in Seq(S) /\ Len(<<Envelope>>) = 1 /\ <<Envelope>>[1] = Envelope
  OBVIOUS
<1>2. ASSUME NEW d \in Seq(Bytes)
      PROVE  /\ Wrap(d) \in Chunk /\ Len(Wrap(d)) = Len(d) + 1 /\ Wrap(d)[1] = Envelope
             /\ Unwrap(Wrap(d)) = d /\ Unwrap(d) = d
  <2>1. d \in Seq(S) /\ Len(d) \in Nat
    <3>1. Bytes \subseteq S
      OBVIOUS
    <3> QED BY <3>1, LenProperties, SeqMonotonic
  <2> DEFINE w == Wrap(d)
  <2>2. /\ w \in Seq(S) /\ Len(w) = 1 + Len(d)
        /\ \A i \in 1..(1 + Len(d)) : w[i] = IF i <= 1 THEN <<Envelope>>[i] ELSE d[i - 1]
    BY <1>1, <2>1, ConcatProperties DEF Wrap
  <2> HIDE DEF w, S
  <2>3. w[1] = Envelope /\ \A i \in 1..Len(d) : w[i + 1] = d[i]
    BY <1>1, <2>1, <2>2
  <2>4. w # <<>>
    <3>1. Len(w) # 0
      BY <2>1, <2>2
    <3> QED BY <3>1, EmptySeq
  <2>5. Tail(w) = d
    <3>1. /\ Tail(w) \in Seq(S) /\ Len(Tail(w)) = Len(w) - 1
          /\ \A i \in 1..Len(Tail(w)) : Tail(w)[i] = w[i + 1]
      BY <2>2, <2>4, HeadTailProperties
    <3>2. Len(Tail(w)) = Len(d)
      BY <2>1, <2>2, <3>1
    <3>3. \A i \in 1..Len(Tail(w)) : Tail(w)[i] = d[i]
      BY <2>3, <3>1, <3>2
    <3> QED BY <2>1, <3>1, <3>2, <3>3, SeqEqual
  <2>6. Unwrap(w) = d
    BY <2>3, <2>4, <2>5 DEF Unwrap
  <2>7. Unwrap(d) = d
    <3>1. d # <<>> => d[1] \in Bytes
      <4>1. d # <<>> => 1 \in 1..Len(d)
        BY EmptySeq
      <4> QED BY <4>1, ElementOfSeq
    <3> QED BY <3>1, ContentsAssumption DEF Unwrap
  <2> QED BY <2>1, <2>2, <2>3, <2>6, <2>7 DEF w, S, Chunk
<1>3. ASSUME NEW x \in Chunk PROVE Unwrap(x) \in Chunk
  <2>1. x \in Seq(S)
    BY DEF Chunk
  <2> HIDE DEF S
  <2>2. x # <<>> => Tail(x) \in Seq(S)
    BY <2>1, HeadTailProperties
  <2> QED BY <2>1, <2>2 DEF Unwrap, Chunk, S
<1> QED BY <1>2, <1>3

\* A content compressed as a whole and cut: each chunk without the envelope,
\* which only the first begins with, and all of them joined, are the content.
LEMMA JoinUnwrapped ==
  ASSUME NEW d \in Seq(Bytes), NEW n \in Nat \ {0}
  PROVE  Join(Plain(TRUE, Cut(Wrap(d), n))) = d
<1> DEFINE w == Wrap(d)
           L == Len(w)
           S == Bytes \cup {Envelope}
           k == CeilDiv(L, n)
           chunks == Cut(w, n)
           p == [i \in 0..k |-> IF i = 0 THEN 0 ELSE MinOf(i * n, L) - 1]
           raw == Plain(TRUE, chunks)
<1>1. w \in Seq(S) /\ L = Len(d) + 1 /\ w[1] = Envelope /\ Len(d) \in Nat /\ w = <<Envelope>> \o d
  BY Unwrapped, LenProperties DEF Chunk, Wrap
<1>2. /\ k \in Nat /\ L \in Nat /\ k * n \in Nat /\ L <= k * n
      /\ Len(chunks) = k /\ DOMAIN chunks = 1..k
      /\ \A i \in 1..k :
           /\ (i - 1) * n \in Nat /\ i * n = (i - 1) * n + n /\ (i - 1) * n < L
           /\ chunks[i] = SubSeq(w, (i - 1) * n + 1, MinOf(i * n, L))
  <2> HIDE DEF w, S
  <2>1. CutInto(S, w, n, Cut(w, n), CeilDiv(Len(w), n))
    BY <1>1, CutPieces
  <2> QED BY <1>1, <2>1 DEF CutInto
<1>3. raw = [i \in 1..k |-> Unwrap(chunks[i])]
  <2> HIDE DEF chunks, k
  <2> QED BY <1>2 DEF Plain
<1>4. Len(raw) = k /\ \A i \in 1..k : raw[i] = Unwrap(chunks[i])
  <2> DEFINE V == {Unwrap(chunks[i]) : i \in 1..k}
  <2> HIDE DEF raw, chunks, k
  <2>1. raw \in [1..k -> V]
    BY <1>3
  <2> HIDE DEF V
  <2>2. Len(raw) = k
    BY <1>2, <2>1
  <2> QED BY <1>3, <2>2
<1> HIDE DEF raw, chunks, k, L, w, S
<1>5. \A i \in 0..k : p[i] = IF i = 0 THEN 0 ELSE MinOf(i * n, L) - 1
  OBVIOUS
<1> HIDE DEF p
\* A part of the wrapped content that leaves out the envelope.
<1>6. ASSUME NEW a \in Nat, a >= 2, NEW b \in Nat, b <= L
      PROVE  SubSeq(w, a, b) = SubSeq(d, a - 1, b - 1)
  <2>1. <<Envelope>> \in Seq(S) /\ Len(<<Envelope>>) = 1 /\ d \in Seq(S)
    <3>1. Bytes \subseteq S
      BY DEF S
    <3>2. d \in Seq(S)
      BY <3>1, SeqMonotonic
    <3> QED BY <3>2 DEF S
  <2>2. CASE a <= b
    <3>1. a \in (1 + 1)..(1 + Len(d)) /\ b \in (1 + 1)..(1 + Len(d))
      BY <1>1, <1>6, <2>2
    <3>2. SubSeq(<<Envelope>> \o d, a, b) = SubSeq(d, a - 1, b - 1)
      <4> DEFINE e == <<Envelope>>
      <4>1. e \in Seq(S) /\ Len(e) = 1
        BY <2>1
      <4> HIDE DEF e
      <4>2. SubSeq(e \o d, a, b) = SubSeq(d, a - Len(e), b - Len(e))
        <5>1. a \in (Len(e) + 1)..(Len(e) + Len(d)) /\ b \in (Len(e) + 1)..(Len(e) + Len(d))
          BY <3>1, <4>1
        <5>2. d \in Seq(S)
          BY <2>1
        <5> QED BY <4>1, <5>1, <5>2, SubSeqOfConcat2
      <4> QED BY <4>1, <4>2 DEF e
    <3> QED BY <1>1, <3>2
  <2>3. CASE b < a
    <3>1. b - 1 < a - 1 /\ a - 1 \in Int /\ b - 1 \in Int
      BY <2>3
    <3> QED BY <2>3, <3>1, SubSeqEmpty
  <2> QED BY <2>2, <2>3
<1>7. ASSUME NEW a \in Nat \ {0}, NEW b \in Nat, b <= Len(d) PROVE SubSeq(d, a, b) \in Seq(Bytes)
  <2>1. \A i \in a..b : d[i] \in Bytes
    <3>1. a..b \subseteq 1..Len(d)
      BY <1>1, <1>7
    <3> QED BY <3>1, ElementOfSeq
  <2> QED BY <2>1, SubSeqProperties
<1>8. ASSUME NEW i \in 1..k
      PROVE  /\ p[i - 1] \in Nat /\ p[i] \in p[i - 1]..Len(d)
             /\ raw[i] = SubSeq(d, p[i - 1] + 1, p[i])
  <2> DEFINE a == (i - 1) * n
             b == i * n
             e == MinOf(b, L)
  <2>1. a \in Nat /\ b = a + n /\ a < L /\ chunks[i] = SubSeq(w, a + 1, e) /\ (i = 1 => a = 0)
    BY <1>2
  <2>2. i # 1 => a > 0
    <3>1. i # 1 => i - 1 \in Nat \ {0}
      BY <1>2
    <3> QED BY <3>1
  <2>3. i \in 0..k /\ i - 1 \in 0..k /\ i # 0 /\ i \in Nat
    BY <1>2
  <2>4. p[i] = e - 1 /\ p[i - 1] = IF i = 1 THEN 0 ELSE MinOf(a, L) - 1
    <3>1. i - 1 = 0 <=> i = 1
      BY <2>3
    <3> QED BY <1>5, <2>3, <3>1
  <2> HIDE DEF a, b
  <2>5. e \in Nat /\ e <= L /\ a + 1 <= e /\ MinOf(a, L) = a
    BY <1>2, <2>1 DEF MinOf
  <2> HIDE DEF e
  <2>6. CASE i = 1
    <3>1. chunks[i] = SubSeq(w, 1, e) /\ p[i - 1] = 0 /\ 1 \in 1..Len(w) /\ e \in 1..Len(w)
      BY <1>1, <2>1, <2>4, <2>5, <2>6 DEF L
    <3>2. Tail(chunks[i]) = SubSeq(w, 2, e)
      <4>1. e \in 1..Len(w) /\ 1 + 1 = 2
        BY <3>1
      <4> QED BY <1>1, <3>1, <4>1, HeadTailOfSubSeq
    <3>3. chunks[i] # <<>> /\ chunks[i][1] = Envelope
      <4>1. /\ SubSeq(w, 1, e) \in Seq(S) /\ Len(SubSeq(w, 1, e)) = IF 1 <= e THEN e - 1 + 1 ELSE 0
            /\ \A j \in 1..(e - 1 + 1) : SubSeq(w, 1, e)[j] = w[1 + j - 1]
        <5>1. \A j \in 1..e : w[j] \in S
          BY <1>1, <3>1, ElementOfSeq
        <5> QED BY <2>5, <5>1, SubSeqProperties
      <4>2. Len(SubSeq(w, 1, e)) # 0 /\ SubSeq(w, 1, e)[1] = w[1]
        BY <3>1, <4>1
      <4>3. SubSeq(w, 1, e) # <<>>
        BY <4>2, EmptySeq
      <4> QED BY <1>1, <3>1, <4>2, <4>3
    <3>4. raw[i] = SubSeq(w, 2, e)
      BY <1>4, <3>2, <3>3 DEF Unwrap
    <3>5. SubSeq(w, 2, e) = SubSeq(d, 1, e - 1)
      <4>1. 2 \in Nat /\ 2 >= 2 /\ 2 - 1 = 1
        OBVIOUS
      <4>2. SubSeq(w, 2, e) = SubSeq(d, 2 - 1, e - 1)
        BY <1>6, <2>5, <4>1
      <4> QED BY <4>1, <4>2
    <3>6. e - 1 \in 0..Len(d) /\ 0 + 1 = 1
      BY <1>1, <2>5, <3>1
    <3> QED BY <2>4, <3>1, <3>4, <3>5, <3>6
  <2>7. CASE i # 1
    <3>1. p[i - 1] = a - 1 /\ a - 1 \in Nat /\ a + 1 \in Nat /\ a + 1 >= 2 /\ (a + 1) - 1 = a
      BY <2>1, <2>2, <2>4, <2>5, <2>7
    <3>2. chunks[i] = SubSeq(d, a, e - 1)
      <4>1. SubSeq(w, a + 1, e) = SubSeq(d, (a + 1) - 1, e - 1)
        BY <1>6, <2>5, <3>1
      <4> QED BY <2>1, <3>1, <4>1
    <3>3. a \in Nat \ {0} /\ e - 1 \in Nat /\ e - 1 <= Len(d)
      BY <1>1, <2>1, <2>2, <2>5, <2>7
    <3>4. raw[i] = SubSeq(d, a, e - 1)
      BY <1>4, <1>7, <3>2, <3>3, Unwrapped
    <3>5. (a - 1) + 1 = a /\ e - 1 \in (a - 1)..Len(d)
      BY <2>1, <2>5, <3>3
    <3> QED BY <2>4, <3>1, <3>4, <3>5
  <2> QED BY <2>6, <2>7
<1>9. p[0] = 0 /\ p[k] = Len(d)
  <2>1. k # 0
    <3>1. 0 * n = 0
      OBVIOUS
    <3> QED BY <1>1, <1>2, <3>1
  <2>2. MinOf(k * n, L) = L
    <3> DEFINE x == k * n
    <3>1. x \in Nat /\ L <= x
      BY <1>2
    <3> HIDE DEF x
    <3>2. MinOf(x, L) = L
      BY <1>2, <3>1 DEF MinOf
    <3> QED BY <3>2 DEF x
  <2>3. 0 \in 0..k /\ k \in 0..k
    BY <1>2
  <2> QED BY <1>1, <1>5, <2>1, <2>2, <2>3
<1>10. Join(raw) = d
  <2>1. Parts(raw, d, k, p)
    BY <1>2, <1>4, <1>8, <1>9 DEF Parts
  <2> QED BY <1>2, <2>1, JoinParts
<1> QED BY <1>10 DEF raw, chunks, w
-----------------------------------------------------------------------------
(* Chunks *)

\* The chunks of two lists, without their envelopes.
LEMMA PlainConcat ==
  ASSUME NEW zip \in BOOLEAN, NEW a \in Seq(Chunk), NEW b \in Seq(Chunk)
  PROVE  /\ Plain(zip, a \o b) = Plain(zip, a) \o Plain(zip, b)
         /\ Plain(zip, a) \in Seq(Chunk) /\ Len(Plain(zip, a)) = Len(a)
<1>1. ASSUME NEW x \in Seq(Chunk)
      PROVE  /\ Plain(zip, x) \in Seq(Chunk) /\ Len(Plain(zip, x)) = Len(x)
             /\ \A i \in 1..Len(x) : Plain(zip, x)[i] = IF zip THEN Unwrap(x[i]) ELSE x[i]
  <2>1. DOMAIN x = 1..Len(x) /\ Len(x) \in Nat /\ \A i \in 1..Len(x) : x[i] \in Chunk
    BY LenProperties, ElementOfSeq
  <2> DEFINE y == Plain(zip, x)
  <2>2. y = [i \in 1..Len(x) |-> IF zip THEN Unwrap(x[i]) ELSE x[i]]
    BY <2>1 DEF Plain
  <2>3. \A i \in 1..Len(x) : (IF zip THEN Unwrap(x[i]) ELSE x[i]) \in Chunk
    BY <2>1, Unwrapped
  <2> HIDE DEF y
  <2>4. y \in [1..Len(x) -> Chunk]
    BY <2>2, <2>3
  <2>5. y \in Seq(Chunk) /\ Len(y) = Len(x)
    BY <2>1, <2>4
  <2> QED BY <2>2, <2>5 DEF y
<1>2. /\ a \o b \in Seq(Chunk) /\ Len(a \o b) = Len(a) + Len(b) /\ Len(a) \in Nat /\ Len(b) \in Nat
      /\ \A i \in 1..(Len(a) + Len(b)) : (a \o b)[i] = IF i <= Len(a) THEN a[i] ELSE b[i - Len(a)]
  BY ConcatProperties, LenProperties
<1> DEFINE pa == Plain(zip, a)
           pb == Plain(zip, b)
           pab == Plain(zip, a \o b)
<1>3. /\ pa \o pb \in Seq(Chunk) /\ Len(pa \o pb) = Len(a) + Len(b)
      /\ \A i \in 1..(Len(a) + Len(b)) : (pa \o pb)[i] = IF i <= Len(a) THEN pa[i] ELSE pb[i - Len(a)]
  <2>1. pa \in Seq(Chunk) /\ Len(pa) = Len(a) /\ pb \in Seq(Chunk) /\ Len(pb) = Len(b)
    BY <1>1
  <2> DEFINE la == Len(a)
             lb == Len(b)
  <2>2. Len(pa) = la /\ Len(pb) = lb
    BY <2>1
  <2> HIDE DEF pa, pb, la, lb
  <2>3. /\ pa \o pb \in Seq(Chunk) /\ Len(pa \o pb) = la + lb
        /\ \A i \in 1..(la + lb) : (pa \o pb)[i] = IF i <= la THEN pa[i] ELSE pb[i - la]
    <3>1. Concatenates(Chunk, pa, pb, la, lb)
      BY <2>1, <2>2, ConcatAt
    <3> QED BY <3>1 DEF Concatenates
  <2> QED BY <2>3 DEF la, lb
<1>4. pab \in Seq(Chunk) /\ Len(pab) = Len(a) + Len(b)
  BY <1>1, <1>2
<1>5. \A i \in 1..(Len(a) + Len(b)) : pab[i] = IF zip THEN Unwrap((a \o b)[i]) ELSE (a \o b)[i]
  BY <1>1, <1>2
<1>6. ASSUME NEW i \in 1..(Len(a) + Len(b)) PROVE pab[i] = (pa \o pb)[i]
  <2>1. CASE i <= Len(a)
    <3>1. i \in 1..Len(a)
      BY <1>2, <2>1
    <3>2. pa[i] = IF zip THEN Unwrap(a[i]) ELSE a[i]
      BY <1>1, <3>1
    <3> HIDE DEF pa, pb, pab
    <3> QED BY <1>2, <1>3, <1>5, <2>1, <3>2
  <2>2. CASE ~ (i <= Len(a))
    <3>1. i - Len(a) \in 1..Len(b)
      BY <1>2, <2>2
    <3>2. pb[i - Len(a)] = IF zip THEN Unwrap(b[i - Len(a)]) ELSE b[i - Len(a)]
      BY <1>1, <3>1
    <3> HIDE DEF pa, pb, pab
    <3> QED BY <1>2, <1>3, <1>5, <2>2, <3>2
  <2> QED BY <2>1, <2>2
<1>7. pab = pa \o pb
  <2> HIDE DEF pa, pb, pab
  <2> QED BY <1>3, <1>4, <1>6, SeqEqual
<1> QED BY <1>1, <1>7

\* Chunks that are not compressed are their bytes.
LEMMA PlainAlone ==
  ASSUME NEW chunks \in Seq(Chunk) PROVE Plain(FALSE, chunks) = chunks
<1>1. chunks = [i \in DOMAIN chunks |-> chunks[i]]
  OBVIOUS
<1> QED BY <1>1 DEF Plain

\* Lists of envelopes, one after the other.
LEMMA WrappedConcat ==
  ASSUME NEW a \in Seq(Chunk), NEW b \in Seq(Chunk), EachWrapped(a), EachWrapped(b)
  PROVE  EachWrapped(a \o b)
<1> DEFINE m == Len(a)
           n == Len(b)
           c == a \o b
<1>1. m \in Nat /\ n \in Nat /\ DOMAIN a = 1..m /\ DOMAIN b = 1..n
  BY LenProperties
<1>2. Concatenates(Chunk, a, b, m, n)
  BY ConcatAt
<1>3. (\A i \in 1..m : a[i] = Wrap(Unwrap(a[i]))) /\ (\A i \in 1..n : b[i] = Wrap(Unwrap(b[i])))
  BY <1>1 DEF EachWrapped
<1> HIDE DEF m, n
<1>4. c \in Seq(Chunk) /\ Len(c) = m + n
  BY <1>2 DEF Concatenates
<1>5. \A i \in 1..(m + n) : c[i] = IF i <= m THEN a[i] ELSE b[i - m]
  BY <1>2 DEF Concatenates
<1>6. DOMAIN c = 1..(m + n)
  BY <1>4, LenProperties
<1> HIDE DEF c
<1>7. ASSUME NEW i \in 1..(m + n) PROVE c[i] = Wrap(Unwrap(c[i]))
  <2>1. CASE i <= m
    <3>1. i \in 1..m
      BY <1>1, <2>1
    <3> QED BY <1>3, <1>5, <2>1, <3>1
  <2>2. CASE ~ (i <= m)
    <3>1. i - m \in 1..n
      BY <1>1, <2>2
    <3> QED BY <1>3, <1>5, <2>2, <3>1
  <2> QED BY <2>1, <2>2
<1>8. EachWrapped(c)
  BY <1>6, <1>7 DEF EachWrapped
<1> QED BY <1>8 DEF c

\* As many envelopes as chunks, and the bytes in them.
LEMMA WrappedLength ==
  ASSUME NEW chunks \in Seq(Chunk), EachWrapped(chunks)
  PROVE  /\ Len(Join(chunks)) = Len(Join(Plain(TRUE, chunks))) + Len(chunks)
         /\ Len(Join(Plain(TRUE, chunks))) \in Nat
<1> DEFINE S == Bytes \cup {Envelope}
           plain == Plain(TRUE, chunks)
           n == Len(chunks)
           u == UpTo(chunks)
           v == UpTo(plain)
<1>1. n \in Nat /\ DOMAIN chunks = 1..n
  BY LenProperties
<1>2. plain \in Seq(Chunk) /\ Len(plain) = n
  <2>1. TRUE \in BOOLEAN
    OBVIOUS
  <2> QED BY <2>1, PlainConcat
<1>3. \A i \in 1..n : plain[i] = Unwrap(chunks[i])
  BY <1>1 DEF Plain
<1>4. chunks \in Seq(Seq(S)) /\ plain \in Seq(Seq(S))
  BY <1>2 DEF Chunk
<1> HIDE DEF S, plain, n
<1>5. Collects(S, chunks, u, n) /\ Collects(S, plain, v, n)
  BY <1>2, <1>4, UpToJoins DEF n
<1> HIDE DEF u, v
<1>6. ASSUME NEW i \in 1..n
      PROVE  /\ Len(v[i - 1]) \in Nat /\ Len(v[i]) \in Nat
             /\ Len(u[i - 1]) = Len(v[i - 1]) + (i - 1) => Len(u[i]) = Len(v[i]) + i
  <2> DEFINE w == chunks[i]
             x == plain[i]
  <2>1. w \in Chunk /\ x \in Chunk
    BY <1>1, <1>2, ElementOfSeq DEF n
  <2>2. w = Wrap(x)
    BY <1>1, <1>3 DEF EachWrapped
  <2>3. Len(w) = 1 + Len(x) /\ Len(x) \in Nat
    <3>1. x \in Seq(S) /\ <<Envelope>> \in Seq(S) /\ Len(<<Envelope>>) = 1
      BY <2>1 DEF S, Chunk
    <3>2. Len(x) \in Nat /\ w = <<Envelope>> \o x
      BY <2>2, <3>1, LenProperties DEF Wrap
    <3> DEFINE e == <<Envelope>>
               l == Len(x)
    <3>3. e \in Seq(S) /\ Len(e) = 1 /\ w = e \o x /\ Len(x) = l
      BY <3>1, <3>2
    <3> HIDE DEF e, l, w, x
    <3>4. Concatenates(S, e, x, 1, l)
      BY <3>1, <3>3, ConcatAt
    <3>5. Len(w) = 1 + l
      BY <3>3, <3>4 DEF Concatenates
    <3> QED BY <3>2, <3>5 DEF l
  <2>4. /\ Len(u[i - 1]) \in Nat /\ Len(u[i]) = Len(u[i - 1]) + Len(w)
        /\ Len(v[i - 1]) \in Nat /\ Len(v[i]) = Len(v[i - 1]) + Len(x)
    <3>1. Extends(u, chunks, i) /\ Extends(v, plain, i)
      BY <1>4, <1>5, Extended
    <3> QED BY <3>1 DEF Extends
  <2> DEFINE u1 == Len(u[i - 1])
             u2 == Len(u[i])
             v1 == Len(v[i - 1])
             v2 == Len(v[i])
             lw == Len(w)
             lx == Len(x)
  <2>5. /\ lw = 1 + lx /\ lx \in Nat /\ u1 \in Nat /\ u2 = u1 + lw /\ v1 \in Nat /\ v2 = v1 + lx
        /\ i \in Nat
    BY <1>1, <2>3, <2>4
  <2> HIDE DEF u1, u2, v1, v2, lw, lx
  <2>6. v2 \in Nat /\ (u1 = v1 + (i - 1) => u2 = v2 + i)
    BY <2>5
  <2> QED BY <2>5, <2>6 DEF u1, u2, v1, v2
<1>7. Len(u[0]) = 0 /\ Len(v[0]) = 0
  BY <1>5, EmptySeq DEF Collects, Accumulates
<1> DEFINE G == {i \in 0..n : Len(v[i]) \in Nat /\ Len(u[i]) = Len(v[i]) + i}
<1>8. 0 \in G
  <2>1. 0 \in 0..n
    BY <1>1
  <2> QED BY <1>7, <2>1
<1>9. ASSUME NEW i \in 1..n, i - 1 \in G PROVE i \in G
  <2>1. i \in 0..n
    BY <1>1
  <2>2. Len(u[i - 1]) = Len(v[i - 1]) + (i - 1)
    BY <1>9
  <2> QED BY <1>6, <2>1, <2>2
<1> HIDE DEF G
<1>10. \A i \in 0..n : i \in G
  BY <1>1, <1>8, <1>9, Climb
<1>11. Len(v[n]) \in Nat /\ Len(u[n]) = Len(v[n]) + n
  <2>1. n \in 0..n
    BY <1>1
  <2> QED BY <1>10, <2>1 DEF G
<1>12. Join(chunks) = u[n] /\ Join(plain) = v[n]
  BY <1>5 DEF Collects
<1> QED BY <1>11, <1>12 DEF plain, n

\* Chunks of plain bytes, compressed one by one, are those chunks.
LEMMA ZippedPlain ==
  ASSUME NEW c, c.zip \in BOOLEAN, NEW now \in Seq(Seq(Bytes))
  PROVE  /\ Zipped(c, now) \in Seq(Chunk) /\ Len(Zipped(c, now)) = Len(now)
         /\ Plain(c.zip, Zipped(c, now)) = now
         /\ c.zip => EachWrapped(Zipped(c, now))
<1> DEFINE n == Len(now)
           z == Zipped(c, now)
<1>1. n \in Nat /\ DOMAIN now = 1..n /\ now = [i \in 1..n |-> now[i]]
      /\ \A i \in 1..n : now[i] \in Seq(Bytes)
  BY LenProperties, ElementOfSeq
<1>2. Seq(Bytes) \subseteq Chunk
  BY SeqMonotonic DEF Chunk
<1>3. z = [i \in 1..n |-> IF c.zip THEN Wrap(now[i]) ELSE now[i]]
  <2>1. CASE c.zip
    BY <1>1, <2>1 DEF Zipped
  <2>2. CASE ~ c.zip
    BY <1>1, <2>2 DEF Zipped
  <2> QED BY <2>1, <2>2
<1>4. \A i \in 1..n : (IF c.zip THEN Wrap(now[i]) ELSE now[i]) \in Chunk
  BY <1>1, <1>2, Unwrapped
<1> HIDE DEF n, z
<1>5. z \in [1..n -> Chunk]
  BY <1>3, <1>4
<1>6. z \in Seq(Chunk) /\ Len(z) = n /\ DOMAIN z = 1..n
  BY <1>1, <1>5, SeqOfFunction, Zenon
<1>7. Plain(c.zip, z) = [i \in 1..n |-> IF c.zip THEN Unwrap(z[i]) ELSE z[i]]
  BY <1>6 DEF Plain
<1>8. \A i \in 1..n : (IF c.zip THEN Unwrap(z[i]) ELSE z[i]) = now[i]
  BY <1>1, <1>3, Unwrapped
<1>9. Plain(c.zip, z) = now
  BY <1>1, <1>7, <1>8
<1>10. c.zip => EachWrapped(z)
  BY <1>1, <1>3, <1>6, Unwrapped DEF EachWrapped
<1> QED BY <1>6, <1>9, <1>10 DEF z, n

\* What a writer holds after encoding chunks: they follow the others, and so
\* do as many fresh ids.
LEMMA EncodedOK ==
  ASSUME NEW c \in WriteCall, NEW chunks \in Seq(Chunk), nextId \in Nat \ {0},
         Len(c.ids) = Len(c.pending), ToSet(c.ids) \subseteq 1..(nextId - 1), Distinct(c.ids)
  PROVE  LET ids == c.ids \o [i \in DOMAIN chunks |-> nextId + i - 1]
         IN  /\ ids \in Seq(Nat) /\ c.pending \o chunks \in Seq(Chunk)
             /\ Len(ids) = Len(c.ids) + Len(chunks) /\ Len(ids) = Len(c.pending \o chunks)
             /\ Distinct(ids)
             /\ ToSet(ids) \subseteq ToSet(c.ids) \cup nextId..(nextId + Len(chunks) - 1)
<1> DEFINE n == Len(chunks)
           new == [i \in DOMAIN chunks |-> nextId + i - 1]
           old == c.ids
           ids == old \o new
           k == nextId
<1>1. n \in Nat /\ DOMAIN chunks = 1..n /\ k \in Nat \ {0}
  BY LenProperties
<1>2. old \in Seq(Nat) /\ c.pending \in Seq(Chunk)
  BY DEF WriteCall
<1>3. Len(old) \in Nat /\ DOMAIN old = 1..Len(old)
      /\ \A i \in 1..Len(old) : old[i] \in 1..(k - 1)
  BY <1>2, LenProperties DEF ToSet
<1>4. Len(c.pending) = Len(old)
  OBVIOUS
<1>5. new = [i \in 1..n |-> k + i - 1]
  BY <1>1
<1> HIDE DEF n, new, k
<1>6. new \in [1..n -> Nat] /\ \A i \in 1..n : new[i] = k + i - 1
  BY <1>1, <1>5
<1>7. new \in Seq(Nat) /\ Len(new) = n
  BY <1>1, <1>6
<1>8. /\ ids \in Seq(Nat) /\ Len(ids) = Len(old) + n
      /\ \A i \in 1..(Len(old) + n) : ids[i] = IF i <= Len(old) THEN old[i] ELSE new[i - Len(old)]
  <2> DEFINE l == Len(old)
  <2>1. old \in Seq(Nat) /\ Len(old) = l
    BY <1>2
  <2> HIDE DEF l, old
  <2>2. /\ ids \in Seq(Nat) /\ Len(ids) = l + n
        /\ \A i \in 1..(l + n) : ids[i] = IF i <= l THEN old[i] ELSE new[i - l]
    <3>1. Concatenates(Nat, old, new, l, n)
      BY <1>7, <2>1, ConcatAt
    <3> QED BY <3>1 DEF Concatenates
  <2> QED BY <2>2 DEF l
<1>9. c.pending \o chunks \in Seq(Chunk) /\ Len(c.pending \o chunks) = Len(old) + n
  <2> DEFINE pend == c.pending
  <2>1. pend \in Seq(Chunk) /\ Len(pend) = Len(old)
    BY <1>2, <1>4
  <2> HIDE DEF pend
  <2>2. pend \o chunks \in Seq(Chunk) /\ Len(pend \o chunks) = Len(old) + n
    <3>1. Len(chunks) = n
      BY DEF n
    <3>2. Concatenates(Chunk, pend, chunks, Len(old), n)
      BY <2>1, <3>1, ConcatAt
    <3> QED BY <3>2 DEF Concatenates
  <2> QED BY <2>2 DEF pend
<1> DEFINE m == Len(old)
<1>10. ASSUME NEW i \in 1..(m + n)
      PROVE  /\ i <= m => i \in 1..m /\ ids[i] = old[i] /\ ids[i] \in 1..(k - 1)
             /\ i > m => ids[i] = k + (i - m) - 1 /\ ids[i] \in k..(k + n - 1)
  <2>1. i <= m => i \in 1..m
    BY <1>3
  <2>2. i > m => i - m \in 1..n
    BY <1>1, <1>3
  <2>3. i > m => ids[i] = k + (i - m) - 1
    <3>1. i > m => ~ (i <= m)
      BY <1>3
    <3> QED BY <1>6, <1>8, <2>2, <3>1
  <2>4. i > m => k + (i - m) - 1 \in k..(k + n - 1)
    <3> DEFINE j == i - m
    <3>1. i > m => j \in 1..n
      BY <2>2
    <3> HIDE DEF j
    <3>2. j \in 1..n => k + j - 1 \in k..(k + n - 1)
      BY <1>1
    <3> QED BY <3>1, <3>2 DEF j
  <2> QED BY <1>3, <1>8, <2>1, <2>3, <2>4
<1>11. \A i, j \in 1..m : old[i] = old[j] => i = j
  BY DEF Distinct
<1>12. m \in Nat
  BY <1>3
<1> HIDE DEF ids, m, old
<1>13. ASSUME NEW i \in 1..(m + n), NEW j \in 1..(m + n), ids[i] = ids[j] PROVE i = j
  <2>1. i \in Nat /\ j \in Nat
    BY <1>1, <1>12
  <2>2. CASE i <= m /\ j <= m
    BY <1>10, <1>11, <1>13, <2>2
  <2>3. CASE i > m /\ j > m
    <3>1. k + (i - m) - 1 = k + (j - m) - 1
      BY <1>10, <1>13, <2>3
    <3> QED BY <1>1, <1>12, <2>1, <3>1
  <2>4. CASE i <= m /\ j > m
    <3>1. ids[i] \in 1..(k - 1) /\ ids[j] \in k..(k + n - 1)
      BY <1>10, <2>4
    <3> QED BY <1>1, <1>13, <3>1
  <2>5. CASE i > m /\ j <= m
    <3>1. ids[j] \in 1..(k - 1) /\ ids[i] \in k..(k + n - 1)
      BY <1>10, <2>5
    <3> QED BY <1>1, <1>13, <3>1
  <2>6. (i <= m \/ i > m) /\ (j <= m \/ j > m)
    BY <1>12, <2>1
  <2> QED BY <2>2, <2>3, <2>4, <2>5, <2>6
<1>14. ToSet(ids) \subseteq ToSet(old) \cup k..(k + n - 1)
  <2>1. DOMAIN ids = 1..(m + n) /\ DOMAIN old = 1..m
    BY <1>3, <1>8, LenProperties DEF m
  <2>2. ASSUME NEW i \in 1..(m + n) PROVE ids[i] \in ToSet(old) \cup k..(k + n - 1)
    <3>1. i <= m \/ i > m
      BY <1>1, <1>12
    <3>2. i <= m => ids[i] \in ToSet(old)
      BY <1>10, <2>1 DEF ToSet
    <3> QED BY <1>10, <3>1, <3>2
  <2> QED BY <2>1, <2>2 DEF ToSet
<1>15. Len(ids) = m + n /\ Distinct(ids)
  BY <1>8, <1>13 DEF m, Distinct
<1> QED BY <1>8, <1>9, <1>14, <1>15 DEF ids, n, new, k, old, m

\* One round of the ingester: what is encoded and what stays in the buffer is
\* what was in the buffer and what came in, and less than a chunk stays.
LEMMA ProcessOK ==
  ASSUME NEW c \in WriteCall, NEW bytes \in Seq(Bytes), NEW flush \in BOOLEAN
  PROVE  \E now \in Seq(Seq(Bytes)), rest \in Seq(Bytes) :
           /\ Process(c, bytes, flush) = [Encoded(c, Zipped(c, now)) EXCEPT !.buffer = rest]
           /\ Len(rest) < c.size /\ (flush => rest = <<>>)
           /\ Join(now) \o rest = c.buffer \o bytes
<1> DEFINE all == c.buffer \o bytes
           L == Len(all)
           size == c.size
           full == (L \div size) * size
           head == IF flush THEN all ELSE Slice(all, 0, full)
           now == Cut(head, size)
           rest == IF flush THEN <<>> ELSE Slice(all, full, L)
<1>1. Process(c, bytes, flush) = [Encoded(c, Zipped(c, now)) EXCEPT !.buffer = rest]
  BY DEF Process
<1>2. all \in Seq(Bytes) /\ size \in Nat \ {0}
  <2>1. c.buffer \in Seq(Bytes) /\ c.size \in Nat \ {0}
    BY DEF WriteCall
  <2> QED BY <2>1, ConcatProperties
<1> HIDE DEF all, size
<1>3. L \in Nat
  BY <1>2, LenProperties
<1>4. full \in Nat /\ full <= L /\ L < full + size
  <2> HIDE DEF L
  <2> QED BY <1>2, <1>3, Division
<1> HIDE DEF L, full
<1>5. ~flush => head = SubSeq(all, 1, full) /\ rest = SubSeq(all, full + 1, L)
  <2>1. MinOf(0 + full, L) = full /\ 0 + 1 = 1 /\ MinOf(full + L, L) = L
    BY <1>3, <1>4 DEF MinOf
  <2> QED BY <2>1 DEF Slice, L
<1>6. /\ head \in Seq(Bytes) /\ rest \in Seq(Bytes) /\ Len(rest) < size
      /\ head \o rest = all
  <2>1. CASE flush
    <3>1. head = all /\ rest = <<>> /\ rest \in Seq(Bytes) /\ Len(rest) = 0
      BY <2>1, EmptySeq
    <3> HIDE DEF head, rest
    <3> QED BY <1>2, <3>1, ConcatEmptySeq
  <2>2. CASE ~flush
    <3>1. SubSeq(all, 1, full) \o SubSeq(all, full + 1, L) = SubSeq(all, 1, L)
      <4>1. 1 \in 1..(Len(all) + 1) /\ full \in (1 - 1)..Len(all) /\ L \in full..Len(all)
        BY <1>3, <1>4 DEF L
      <4> QED BY <1>2, <4>1, ConcatAdjacentSubSeq
    <3>2. SubSeq(all, 1, L) = all
      BY <1>2, SubSeqFull DEF L
    <3>3. \A i \in 1..L : all[i] \in Bytes
      BY <1>2, ElementOfSeq DEF L
    <3>4. SubSeq(all, 1, full) \in Seq(Bytes)
      <4>1. \A i \in 1..full : all[i] \in Bytes
        BY <1>3, <1>4, <3>3
      <4> QED BY <1>4, <4>1, SubSeqProperties
    <3>5. SubSeq(all, full + 1, L) \in Seq(Bytes) /\ Len(SubSeq(all, full + 1, L)) < size
      <4>1. \A i \in (full + 1)..L : all[i] \in Bytes
        BY <1>3, <1>4, <3>3
      <4>2. /\ SubSeq(all, full + 1, L) \in Seq(Bytes)
            /\ Len(SubSeq(all, full + 1, L)) = IF full + 1 <= L THEN L - (full + 1) + 1 ELSE 0
        BY <1>3, <1>4, <4>1, SubSeqProperties
      <4> QED BY <1>2, <1>3, <1>4, <4>2
    <3> HIDE DEF head, rest
    <3> QED BY <1>5, <2>2, <3>1, <3>2, <3>4, <3>5
  <2> QED BY <2>1, <2>2
<1> HIDE DEF head, rest
<1>7. now \in Seq(Seq(Bytes)) /\ Join(now) = head
  BY <1>2, <1>6, CutPieces, JoinCut DEF CutInto
<1>8. flush => rest = <<>>
  BY DEF rest
<1> HIDE DEF now
<1>9. Len(rest) < c.size /\ Join(now) \o rest = c.buffer \o bytes
  BY <1>6, <1>7 DEF size, all
<1> QED BY <1>1, <1>6, <1>7, <1>8, <1>9
-----------------------------------------------------------------------------
(* Steps *)

\* A store that only gains entries, a log that only gains publications.
Keeps(old, new) ==
  DOMAIN old \subseteq DOMAIN new /\ \A id \in DOMAIN old : new[id] = old[id]

Longer(lg, lg2) ==
  \A p \in Paths : /\ Len(lg[p]) \in Nat /\ Len(lg2[p]) \in Nat /\ Len(lg[p]) <= Len(lg2[p])
                   /\ \A i \in 1..Len(lg[p]) : lg2[p][i] = lg[p][i]

\* An entry whose chunks are stored.
LEMMA EntryKept ==
  ASSUME NEW e, NEW content, NEW st, NEW co, EntryHolds(e, content, st, co),
         NEW st2, NEW co2, Keeps(st, st2), Keeps(co, co2)
  PROVE  EntryHolds(e, content, st2, co2) /\ BytesOf(e, st2) = BytesOf(e, st)
<1>1. \A i \in DOMAIN e.chunks :
        /\ e.chunks[i] \in DOMAIN st2 /\ e.chunks[i] \in DOMAIN co2
        /\ st2[e.chunks[i]] = st[e.chunks[i]] /\ co2[e.chunks[i]] = co[e.chunks[i]]
  BY DEF EntryHolds, ChunksHeld, Keeps
<1>2. BytesOf(e, st2) = BytesOf(e, st)
  BY <1>1 DEF BytesOf
<1>3. ChunksHeld(e, st2, co2)
  BY <1>1 DEF EntryHolds, ChunksHeld
<1> QED BY <1>2, <1>3 DEF EntryHolds

\* A reader keeps what it found, and so does what it was published as.
LEMMA ReaderKept ==
  ASSUME NEW c, NEW st, NEW co, NEW lg, ReaderHas(c, st, co, lg),
         NEW st2, NEW co2, NEW lg2, Keeps(st, st2), Keeps(co, co2), Longer(lg, lg2)
  PROVE  /\ ReaderHas(c, st2, co2, lg2) /\ BytesOf(c.entry, st2) = BytesOf(c.entry, st)
         /\ ContentIn(lg2, c.path, c.entry) = ContentIn(lg, c.path, c.entry)
<1> DEFINE p == c.path
           e == c.entry
           v == e.version
<1>1. p \in Paths /\ e \in Entry /\ v + 1 \in 1..Len(lg[p])
      /\ EntryHolds(e, ContentIn(lg, p, e), st, co)
  BY DEF ReaderHas
<1> HIDE DEF p, e
<1>2. /\ Len(lg[p]) \in Nat /\ Len(lg2[p]) \in Nat /\ Len(lg[p]) <= Len(lg2[p])
      /\ lg2[p][v + 1] = lg[p][v + 1]
  BY <1>1 DEF Longer
<1>3. v + 1 \in 1..Len(lg2[p])
  BY <1>1, <1>2
<1>4. ContentIn(lg2, p, e) = ContentIn(lg, p, e)
  BY <1>2 DEF ContentIn
<1>5. EntryHolds(e, ContentIn(lg2, p, e), st2, co2) /\ BytesOf(e, st2) = BytesOf(e, st)
  BY <1>1, <1>4, EntryKept
<1> QED BY <1>1, <1>3, <1>4, <1>5 DEF ReaderHas, p, e

\* A call of another thread.
LEMMA CallKept ==
  ASSUME NEW c, NEW hol, NEW st, NEW co, NEW lg, NEW rt, CallOK(c, hol, st, co, lg, rt),
         NEW st2, NEW co2, NEW lg2, NEW rt2,
         Keeps(st, st2), Keeps(co, co2), Longer(lg, lg2), rt \subseteq rt2
  PROVE  CallOK(c, hol, st2, co2, lg2, rt2)
<1>1. ASSUME NEW ids, NEW chunks, NEW format, InStore(ids, chunks, format, st)
      PROVE  InStore(ids, chunks, format, st2)
  BY <1>1 DEF InStore, Keeps
<1>2. ASSUME NEW ids, NEW chunks, InCorr(ids, chunks, co) PROVE InCorr(ids, chunks, co2)
  BY <1>2 DEF InCorr, Keeps
<1>3. ASSUME NEW p \in Paths, NEW v \in Nat, NEW data, NEW ids, InLog(p, v, data, ids, lg)
      PROVE  InLog(p, v, data, ids, lg2)
  <2>1. /\ v + 1 \in 1..Len(lg[p]) /\ Len(lg[p]) \in Nat /\ Len(lg2[p]) \in Nat
        /\ Len(lg[p]) <= Len(lg2[p]) /\ lg2[p][v + 1] = lg[p][v + 1]
    BY <1>3 DEF InLog, Longer
  <2>2. v + 1 \in 1..Len(lg2[p])
    BY <2>1
  <2> QED BY <1>3, <2>1, <2>2 DEF InLog
<1>4. ASSUME c.pc \in WritePCs PROVE WriterOK(c, hol, st2, co2, lg2)
  <2>1. WriterOK(c, hol, st, co, lg)
    BY <1>4 DEF CallOK
  <2>2. c.path \in Paths /\ VersionOf(c) \in Nat
    BY <2>1, NoneAssumption DEF WriterOK, WriteCall, VersionOf
  <2>3. InLog(c.path, VersionOf(c), c.data, c.ids, lg) => InLog(c.path, VersionOf(c), c.data, c.ids, lg2)
    BY <1>3, <2>2
  <2>4. /\ InStore(c.ids, c.pending, EncodingIn(hol, c), st)
             => InStore(c.ids, c.pending, EncodingIn(hol, c), st2)
        /\ InCorr(c.ids, c.pending, co) => InCorr(c.ids, c.pending, co2)
    BY <1>1, <1>2
  <2> QED BY <2>1, <2>3, <2>4 DEF WriterOK
<1>5. ASSUME c.pc = "ok", "version" \in DOMAIN c PROVE AnswerOK(c, lg2, rt2)
  <2>1. AnswerOK(c, lg, rt)
    BY <1>5 DEF CallOK
  <2>2. InLog(c.path, c.version, c.data, c.ids, lg2)
    BY <1>3, <2>1 DEF AnswerOK
  <2> QED BY <2>1, <2>2 DEF AnswerOK
<1>6. ASSUME ReaderHas(c, st, co, lg)
      PROVE  /\ ReaderHas(c, st2, co2, lg2) /\ BytesOf(c.entry, st2) = BytesOf(c.entry, st)
             /\ ContentIn(lg2, c.path, c.entry) = ContentIn(lg, c.path, c.entry)
  BY <1>6, ReaderKept
<1>7. ASSUME c.pc = "read" PROVE ReaderHas(c, st2, co2, lg2) /\ RequestOK(c)
  BY <1>6, <1>7 DEF CallOK
<1>8. ASSUME c.pc = "ok", "entry" \in DOMAIN c
      PROVE  ReaderHas(c, st2, co2, lg2) /\ RequestOK(c) /\ ResultOK(c, st2, lg2)
  <2>1. ReaderHas(c, st, co, lg) /\ RequestOK(c) /\ ResultOK(c, st, lg)
    BY <1>8 DEF CallOK
  <2>2. ResultOK(c, st2, lg2)
    BY <1>6, <2>1 DEF ResultOK
  <2> QED BY <1>6, <2>1, <2>2
<1>9. ASSUME c.pc = "decode" PROVE DecoderOK(c, st2, co2, lg2)
  <2>1. DecoderOK(c, st, co, lg)
    BY <1>9 DEF CallOK
  <2> QED BY <1>6, <2>1 DEF DecoderOK
<1> QED BY <1>4, <1>5, <1>7, <1>8, <1>9 DEF CallOK

\* A step of thread t, after which it is in call c.
LEMMA CallMoves ==
  ASSUME Typed, NEW t \in Threads, NEW c, Becomes(t, c)
  PROVE  /\ call' = [u \in Threads |-> call'[u]] /\ call'[t] = c
         /\ \A u \in Threads : u # t => call'[u] = call[u]
<1> DEFINE f == call
<1>1. f = [u \in Threads |-> f[u]] /\ call' = [f EXCEPT ![t] = c]
  BY DEF Typed, Becomes
<1> HIDE DEF f
<1>2. call' = [u \in Threads |-> IF u = t THEN c ELSE f[u]]
  BY <1>1
<1> QED BY <1>2 DEF f

\* The ids below a bound.
LEMMA Below == ASSUME NEW a \in Nat, NEW b \in Nat, a <= b PROVE 1..(a - 1) \subseteq 1..(b - 1)
OBVIOUS

\* What a step has to respect for ids to stay fresh: a call takes over its own
\* or allocates new ones, and inserts its own only.
LEMMA FreshStep ==
  ASSUME Typed, Fresh, NEW t \in Threads, NEW c, Becomes(t, c),
         nextId' \in Nat, nextId <= nextId',
         Owned(c) \subseteq Owned(call[t]) \cup nextId..(nextId' - 1),
         DOMAIN store' \subseteq DOMAIN store \cup Owned(call[t]),
         DOMAIN corr' \subseteq DOMAIN corr \cup Owned(call[t]),
         Owned(c) # {} => DOMAIN corr' \subseteq DOMAIN corr,
         Owned(c) # {} /\ c.pc \in {"feed", "insert"} =>
           DOMAIN store' \subseteq DOMAIN store /\ call[t].pc \notin {"corrVersion", "correct"}
  PROVE  Fresh'
<1>1. call'[t] = c /\ \A u \in Threads : u # t => call'[u] = call[u]
  BY CallMoves
<1>2. nextId \in Nat \ {0} /\ DOMAIN store \subseteq 1..(nextId - 1) /\ DOMAIN corr \subseteq 1..(nextId - 1)
  BY DEF Typed
<1>3. ASSUME NEW u \in Threads, NEW id \in Owned(call[u])
      PROVE  /\ id \in 1..(nextId - 1) /\ id \in 1..(nextId' - 1) /\ id \notin DOMAIN corr
             /\ call[u].pc \in {"feed", "insert"} => id \notin DOMAIN store
             /\ u # t => id \notin Owned(call[t])
             /\ call[u].pc \in {"feed", "insert", "corrVersion", "correct"}
  <2>1. /\ id \in 1..(nextId - 1) /\ id \notin DOMAIN corr
        /\ call[u].pc \in {"feed", "insert"} => id \notin DOMAIN store
    BY DEF Fresh
  <2>2. id \in 1..(nextId' - 1)
    BY <1>2, <2>1, Below
  <2>3. u # t => id \notin Owned(call[t])
    BY DEF Fresh
  <2>4. call[u].pc \in {"feed", "insert", "corrVersion", "correct"}
    BY DEF Owned
  <2> QED BY <2>1, <2>2, <2>3, <2>4
<1>4. ASSUME NEW id \in Owned(c)
      PROVE  /\ id \in 1..(nextId' - 1) /\ id \notin DOMAIN corr'
             /\ c.pc \in {"feed", "insert"} => id \notin DOMAIN store'
             /\ \A u \in Threads : u # t => id \notin Owned(call[u])
  <2>1. CASE id \in Owned(call[t])
    <3>1. id \notin DOMAIN corr /\ id \in 1..(nextId' - 1)
      BY <1>3, <2>1
    <3>2. \A u \in Threads : u # t => id \notin Owned(call[u])
      BY <2>1 DEF Fresh
    <3>3. c.pc \in {"feed", "insert"} => id \notin DOMAIN store
      BY <1>3, <2>1
    <3> QED BY <3>1, <3>2, <3>3
  <2>2. CASE id \in nextId..(nextId' - 1)
    <3>1. id \notin 1..(nextId - 1) /\ id \in 1..(nextId' - 1)
      BY <1>2, <2>2
    <3>2. \A u \in Threads : id \notin Owned(call[u])
      BY <1>3, <3>1
    <3> QED BY <1>2, <3>1, <3>2
  <2> QED BY <2>1, <2>2
<1>5. ASSUME NEW u \in Threads, NEW id \in Owned(call'[u])
      PROVE  /\ id \in 1..(nextId' - 1) /\ id \notin DOMAIN corr'
             /\ call'[u].pc \in {"feed", "insert"} => id \notin DOMAIN store'
  <2>1. CASE u = t
    BY <1>1, <1>4, <1>5, <2>1
  <2>2. CASE u # t
    <3>1. call'[u] = call[u] /\ id \in Owned(call[u])
      BY <1>1, <1>5, <2>2
    <3> QED BY <1>3, <2>2, <3>1
  <2> QED BY <2>1, <2>2
<1>6. ASSUME NEW u \in Threads, NEW v \in Threads, u # v
      PROVE  Owned(call'[u]) \cap Owned(call'[v]) = {}
  <2>1. CASE u = t
    BY <1>1, <1>4, <1>6, <2>1
  <2>2. CASE v = t
    BY <1>1, <1>4, <1>6, <2>2
  <2>3. CASE u # t /\ v # t
    BY <1>1, <1>6, <2>3 DEF Fresh
  <2> QED BY <2>1, <2>2, <2>3
<1>7. \A u \in Threads : \A x : x = call'[u] => Owned(x) = Owned(call[u])'
  BY DEF Owned
<1> QED BY <1>5, <1>6, <1>7 DEF Fresh, Owned

\* The calls after a step.
LEMMA CallsStep ==
  ASSUME Typed, CallsOK, NEW t \in Threads, NEW c, Becomes(t, c),
         CallOK(c, holographic', store', corr', log', root'),
         Keeps(store, store'), Keeps(corr, corr'), Longer(log, log'), root \subseteq root',
         UNCHANGED holographic
  PROVE  CallsOK'
<1>1. call'[t] = c /\ \A u \in Threads : u # t => call'[u] = call[u]
  BY CallMoves
<1>2. ASSUME NEW u \in Threads
      PROVE  \A x : x = call'[u] => CallOK(x, holographic', store', corr', log', root')
  <2>1. CASE u = t
    BY <1>1, <2>1
  <2>2. CASE u # t
    <3>1. CallOK(call[u], holographic, store, corr, log, root)
      BY DEF CallsOK
    <3>2. CallOK(call[u], holographic, store', corr', log', root')
      BY <3>1, CallKept
    <3> QED BY <1>1, <2>2, <3>2
  <2> QED BY <2>1, <2>2
<1> QED BY <1>2 DEF CallsOK

\* A step that leaves the manifest alone.
LEMMA FilesKept ==
  ASSUME FilesHold, Keeps(store, store'), Keeps(corr, corr'), UNCHANGED <<files, log>>
  PROVE  FilesHold'
<1>1. ASSUME NEW p \in Paths, files[p] # None, ~files[p].deleted
      PROVE  EntryHolds(files[p], Last(log[p]).content, store', corr')
  <2>1. EntryHolds(files[p], Last(log[p]).content, store, corr)
    BY <1>1 DEF FilesHold
  <2> QED BY <2>1, EntryKept
<1> QED BY <1>1 DEF FilesHold

\* A log that stays.
LEMMA SameLog == ASSUME Typed PROVE Longer(log, log)
<1>1. \A p \in Paths : Len(log[p]) \in Nat
  BY LenProperties DEF Typed
<1> QED BY <1>1 DEF Longer

\* A step that changes the thread's own locals, and may allocate ids.
LEMMA LocalStep ==
  ASSUME Inductive, NEW t \in Threads, NEW c, Becomes(t, c), c.pc \in PCs,
         CallOK(c, holographic, store, corr, log, root),
         nextId' \in Nat \ {0}, nextId <= nextId',
         Owned(c) \subseteq Owned(call[t]) \cup nextId..(nextId' - 1),
         Owned(c) # {} /\ c.pc \in {"feed", "insert"} => call[t].pc \notin {"corrVersion", "correct"},
         UNCHANGED <<files, store, storeVersion, corr, corrVersion, root, holographic, log>>
  PROVE  Inductive'
<1>1. Typed /\ Fresh /\ CallsOK /\ FilesHold
  BY DEF Inductive
<1>2. call' = [u \in Threads |-> call'[u]] /\ call'[t] = c /\ \A u \in Threads : u # t => call'[u] = call[u]
  BY <1>1, CallMoves
<1>3. Keeps(store, store') /\ Keeps(corr, corr') /\ Longer(log, log')
  BY <1>1, SameLog DEF Keeps
<1>4. Typed'
  <2>1. \A u \in Threads : call'[u].pc \in PCs
    BY <1>1, <1>2 DEF Typed
  <2>2. nextId \in Nat /\ 1..(nextId - 1) \subseteq 1..(nextId' - 1)
    BY <1>1 DEF Typed
  <2> QED BY <1>1, <1>2, <2>1, <2>2 DEF Typed
<1>5. Fresh'
  BY <1>1, FreshStep
<1>6. CallsOK'
  BY <1>1, <1>3, CallsStep
<1>7. FilesHold'
  BY <1>1, <1>3, FilesKept
<1> QED BY <1>4, <1>5, <1>6, <1>7 DEF Inductive
-----------------------------------------------------------------------------
(* Steps that encode *)

\* What the invariant says of a writer.
LEMMA WriterHas ==
  ASSUME Inductive, NEW t \in Threads, call[t].pc \in WritePCs
  PROVE  /\ WriterOK(call[t], holographic, store, corr, log) /\ call[t] \in WriteCall
         /\ DOMAIN call[t].ids = 1..Len(call[t].ids) /\ Len(call[t].ids) \in Nat
         /\ call[t].data \in Seq(Bytes)
<1>1. WriterOK(call[t], holographic, store, corr, log)
  BY DEF Inductive, CallsOK, CallOK
<1>2. call[t] \in WriteCall
  BY <1>1 DEF WriterOK
<1>3. call[t].ids \in Seq(Nat) /\ call[t].data \in Seq(Bytes)
  BY <1>2, ContentsAssumption DEF WriteCall
<1> QED BY <1>1, <1>2, <1>3, LenProperties

\* A new write call.
LEMMA WriterType ==
  ASSUME NEW kind \in WriteKinds, NEW p \in Paths, NEW data \in Contents, NEW v \in Nat \cup {None},
         NEW size \in Nat \ {0}, NEW zip \in BOOLEAN
  PROVE  /\ Writer(kind, p, data, v, size, zip) \in WriteCall
         /\ Len(Writer(kind, p, data, v, size, zip).ids) = 0
<1>1. /\ <<>> \in Seq(Nat) /\ <<>> \in Seq(Bytes) /\ <<>> \in Seq(Chunk) /\ Len(<<>>) = 0
      /\ 0 \in Nat /\ "begin" \in WritePCs
  BY EmptySeq DEF WritePCs
<1> QED BY <1>1 DEF Writer, WriteCall

\* Nothing joins to nothing.
LEMMA JoinEmpty == \A zip \in BOOLEAN : Join(Plain(zip, <<>>)) = <<>>
<1>1. <<>> \in Seq(Chunk) /\ Len(<<>>) = 0
  BY EmptySeq
<1>2. ASSUME NEW zip \in BOOLEAN PROVE Join(Plain(zip, <<>>)) = <<>>
  <2> DEFINE s == Plain(zip, <<>>)
             h == [i \in 0..0 |-> <<>>]
  <2>1. Len(s) = 0
    BY <1>1, PlainConcat
  <2>2. h[0] = <<>> /\ h = [i \in 0..0 |-> h[i]] /\ \A i \in 1..0 : h[i] = h[i - 1] \o s[i]
    OBVIOUS
  <2> HIDE DEF s, h
  <2>3. Join(s) = h[0]
    <3>1. Accumulates(h, s, 0)
      BY <2>2 DEF Accumulates
    <3> QED BY <2>1, <3>1, JoinBy
  <2> QED BY <2>2, <2>3 DEF s
<1> QED BY <1>2

\* The type of a call that has encoded chunks, and the number of its ids.
LEMMA EncodedType ==
  ASSUME NEW w \in WriteCall, NEW chunks \in Seq(Chunk), Inductive
  PROVE  /\ Encoded(w, chunks) \in WriteCall
         /\ Len(Encoded(w, chunks).ids) = Len(w.ids) + Len(chunks)
<1> DEFINE new == [i \in DOMAIN chunks |-> nextId + i - 1]
<1>1. Len(chunks) \in Nat /\ DOMAIN chunks = 1..Len(chunks) /\ nextId \in Nat \ {0}
  BY LenProperties DEF Inductive, Typed
<1>2. \A i \in 1..Len(chunks) : nextId + i - 1 \in Nat
  BY <1>1
<1>3. new \in [1..Len(chunks) -> Nat]
  BY <1>1, <1>2
<1> HIDE DEF new
<1>4. new \in Seq(Nat)
  BY <1>1, <1>3, SeqOfFunction
<1>5. w.ids \in Seq(Nat) /\ w.pending \in Seq(Chunk)
  BY DEF WriteCall
<1>6. w.ids \o new \in Seq(Nat) /\ w.pending \o chunks \in Seq(Chunk)
  BY <1>4, <1>5, ConcatProperties
<1>7. Len(w.ids \o new) = Len(w.ids) + Len(chunks)
  <2> DEFINE old == w.ids
             l == Len(old)
             k == Len(chunks)
  <2>1. old \in Seq(Nat) /\ Len(new) = k /\ Len(old) = l
    BY <1>1, <1>3, <1>5, SeqOfFunction
  <2> HIDE DEF old, l, k
  <2>2. Len(old \o new) = l + k
    <3>1. Concatenates(Nat, old, new, l, k)
      BY <1>4, <2>1, ConcatAt
    <3> QED BY <3>1 DEF Concatenates
  <2> QED BY <2>2 DEF old, l, k
<1>8. Encoded(w, chunks).ids = w.ids \o new
  BY DEF Encoded, WriteCall, new
<1> QED BY <1>6, <1>7, <1>8 DEF Encoded, WriteCall, new

\* A call that has encoded chunks: w is the call before, e the call after.
LEMMA Allocated ==
  ASSUME Inductive, NEW t \in Threads, NEW w \in WriteCall, NEW chunks \in Seq(Chunk),
         Len(w.ids) = Len(w.pending),
         Distinct(w.ids),
         Len(w.ids) = 0 \/ (call[t].pc = "feed" /\ w.ids = call[t].ids),
         call[t].pc \notin {"corrVersion", "correct"},
         NEW e \in WriteCall, e.ids = Encoded(w, chunks).ids, e.pending = Encoded(w, chunks).pending,
         e.pc \in {"feed", "insert"},
         e.pc = "feed" =>
           /\ e.fed <= Len(e.data) /\ Len(e.buffer) < e.size
           /\ Join(Plain(e.zip, e.pending)) \o e.buffer = SubSeq(e.data, 1, e.fed),
         e.pc = "insert" => Join(Plain(e.zip, e.pending)) = e.data,
         Sealed(e),
         Becomes(t, e), nextId' = nextId + Len(chunks),
         UNCHANGED <<files, store, storeVersion, corr, corrVersion, root, holographic, log>>
  PROVE  Inductive'
<1> DEFINE ids == w.ids \o [i \in DOMAIN chunks |-> nextId + i - 1]
           pend == w.pending \o chunks
<1>1. nextId \in Nat \ {0} /\ Len(chunks) \in Nat /\ w.ids \in Seq(Nat)
  BY LenProperties DEF Inductive, Typed, WriteCall
<1>2. Len(w.ids) \in Nat /\ DOMAIN w.ids = 1..Len(w.ids) /\ ToSet(w.ids) = {w.ids[i] : i \in 1..Len(w.ids)}
  BY <1>1, LenProperties DEF ToSet
<1>3. ToSet(w.ids) \subseteq Owned(call[t])
  <2>1. CASE Len(w.ids) = 0
    BY <1>2, <2>1
  <2>2. CASE call[t].pc = "feed" /\ w.ids = call[t].ids
    BY <2>2 DEF Owned
  <2> QED BY <2>1, <2>2
<1>4. ToSet(w.ids) \subseteq 1..(nextId - 1)
  BY <1>3 DEF Inductive, Fresh
<1>5. e.ids = ids /\ e.pending = pend
  BY DEF Encoded, WriteCall
<1>6. /\ Len(ids) = Len(pend)
      /\ Distinct(ids)
      /\ ToSet(ids) \subseteq ToSet(w.ids) \cup nextId..(nextId + Len(chunks) - 1)
  BY <1>1, <1>4, EncodedOK
<1> HIDE DEF ids, pend
<1>7. WriterOK(e, holographic, store, corr, log)
  BY <1>5, <1>6 DEF WriterOK
<1>8. e.pc \in PCs /\ CallOK(e, holographic, store, corr, log, root)
  BY <1>7 DEF CallOK, PCs
<1>9. Owned(e) \subseteq Owned(call[t]) \cup nextId..(nextId' - 1)
  <2>1. Owned(e) = ToSet(ids)
    BY <1>5 DEF Owned
  <2>2. ToSet(ids) \subseteq Owned(call[t]) \cup nextId..(nextId + Len(chunks) - 1)
    BY <1>3, <1>6
  <2>3. nextId' - 1 = nextId + Len(chunks) - 1
    BY <1>1
  <2> QED BY <2>1, <2>2, <2>3
<1>10. nextId' \in Nat \ {0} /\ nextId <= nextId'
  BY <1>1
<1> QED BY <1>8, <1>9, <1>10, LocalStep

\* A thread whose call ends, or goes on without ids to its name.
LEMMA QuietStep ==
  ASSUME Inductive, NEW t \in Threads, NEW c, Becomes(t, c), c.pc \in PCs, Owned(c) = {},
         CallOK(c, holographic, store, corr, log, root),
         nextId' \in Nat \ {0}, nextId <= nextId',
         UNCHANGED <<files, store, storeVersion, corr, corrVersion, root, holographic, log>>
  PROVE  Inductive'
BY LocalStep

\* The calls that hold nothing: Idle and Failed.
LEMMA EndedOK ==
  /\ Idle.pc \in PCs /\ Owned(Idle) = {} /\ CallOK(Idle, holographic, store, corr, log, root)
  /\ Failed.pc \in PCs /\ Owned(Failed) = {} /\ CallOK(Failed, holographic, store, corr, log, root)
BY DEF Idle, Failed, PCs, Owned, CallOK, WritePCs

\* The version a caller passes.
LEMMA ExpectationType ==
  ASSUME Typed, NEW p \in Paths, NEW v \in Expectations(p)
  PROVE  v \in Nat \cup {None}
<1>1. Len(log[p]) \in Nat
  BY LenProperties DEF Typed
<1> QED BY <1>1 DEF Expectations

\* StreamingIngesterBuilder
LEMMA BuildOK ==
  ASSUME Inductive, NEW t \in Threads, NEW p \in Paths, NEW data \in Contents,
         NEW v \in Expectations(p), NEW asked \in AskedSizes, NEW zip \in BOOLEAN,
         Build(t, p, data, v, asked, zip)
  PROVE  Inductive'
<1> DEFINE w == Writer("stream", p, data, v, Clamped(asked), zip)
           c == [w EXCEPT !.pc = "feed"]
<1>1. Clamped(asked) \in Nat \ {0}
  BY SizesAssumption, CallsAssumption DEF Clamped, MinOf
<1>2. w \in WriteCall /\ Len(w.ids) = 0
  <2>1. v \in Nat \cup {None} /\ "stream" \in WriteKinds
    BY ExpectationType DEF Inductive, WriteKinds
  <2> QED BY <1>1, <2>1, WriterType
<1>3. /\ w.ids = <<>> /\ w.pending = <<>> /\ w.buffer = <<>> /\ w.fed = 0 /\ w.zip = zip
      /\ w.size = Clamped(asked) /\ w.data = data /\ w.kind = "stream"
  BY DEF Writer
<1>4. Becomes(t, c) /\ UNCHANGED <<files, stores, root, holographic, log>>
  BY DEF Build
<1> HIDE DEF w
<1>5. /\ c \in WriteCall /\ c.ids = <<>> /\ c.pending = <<>> /\ c.buffer = <<>> /\ c.fed = 0
      /\ c.zip = zip /\ c.size = Clamped(asked) /\ c.data = data /\ c.pc = "feed"
      /\ c.kind = "stream"
  BY <1>2, <1>3 DEF WriteCall, WritePCs
<1> HIDE DEF c
<1>6. WriterOK(c, holographic, store, corr, log)
  <2>1. Len(<<>>) = 0 /\ data \in Seq(Bytes)
    BY ContentsAssumption, EmptySeq
  <2>2. Len(data) \in Nat
    BY <2>1, LenProperties
  <2>3. Join(Plain(zip, <<>>)) \o <<>> = SubSeq(data, 1, 0)
    <3>1. Join(Plain(zip, <<>>)) = <<>>
      BY JoinEmpty
    <3>2. SubSeq(data, 1, 0) = <<>>
      BY SubSeqEmpty
    <3>3. <<>> \o <<>> = <<>>
      <4>1. <<>> \in Seq(Bytes)
        BY EmptySeq
      <4> QED BY <4>1, ConcatEmptySeq
    <3> QED BY <3>1, <3>2, <3>3
  <2>4. Sealed(c)
    BY <1>5 DEF Sealed, EachWrapped
  <2> QED BY <1>1, <1>5, <2>1, <2>2, <2>3, <2>4 DEF WriterOK, Distinct
<1>7. c.pc \in PCs /\ CallOK(c, holographic, store, corr, log, root) /\ Owned(c) = {}
  <2>1. ToSet(<<>>) = {}
    BY DEF ToSet
  <2> QED BY <1>5, <1>6, <2>1 DEF PCs, CallOK, Owned
<1>8. nextId' \in Nat \ {0} /\ nextId <= nextId'
  BY <1>4 DEF stores, Inductive, Typed
<1> QED BY <1>4, <1>7, <1>8, QuietStep DEF stores

\* write_file_compressed and write_file_holographic begin.
LEMMA StartWriteOK ==
  ASSUME Inductive, NEW t \in Threads, NEW kind \in {"compressed", "holographic"}, NEW p \in Paths,
         NEW data \in Contents, NEW v \in Expectations(p), NEW size \in Nat \ {0},
         NEW zip \in BOOLEAN, zip => kind = "compressed", StartWrite(t, Writer(kind, p, data, v, size, zip))
  PROVE  Inductive'
<1> DEFINE c == Writer(kind, p, data, v, size, zip)
<1>1. c \in WriteCall /\ Len(c.ids) = 0
  <2>1. kind \in WriteKinds
    BY DEF WriteKinds
  <2> QED BY <2>1, ExpectationType, WriterType DEF Inductive
<1>2. c.ids = <<>> /\ c.pending = <<>> /\ c.pc = "begin" /\ c.kind = kind /\ c.zip = zip
  BY DEF Writer
<1>3. Becomes(t, c) \/ Becomes(t, Failed)
  BY DEF StartWrite
<1>4. UNCHANGED <<files, stores, root, holographic, log>>
  BY DEF StartWrite
<1> HIDE DEF c
<1>5. WriterOK(c, holographic, store, corr, log)
  <2>1. Sealed(c)
    BY <1>2 DEF Sealed
  <2> QED BY <1>1, <1>2, <2>1, EmptySeq DEF WriterOK, Distinct
<1>6. c.pc \in PCs /\ CallOK(c, holographic, store, corr, log, root) /\ Owned(c) = {}
  BY <1>2, <1>5 DEF PCs, CallOK, Owned
<1>7. nextId' \in Nat \ {0} /\ nextId <= nextId'
  BY <1>4 DEF stores, Inductive, Typed
<1> QED BY <1>3, <1>4, <1>6, <1>7, EndedOK, QuietStep DEF stores

\* One round of the ingester on a call: the chunks it adds, and that no byte
\* is lost.
LEMMA Drained ==
  ASSUME Inductive, NEW t \in Threads, call[t].pc = "feed",
         NEW bytes \in Seq(Bytes), NEW flush \in BOOLEAN
  PROVE  LET c == call[t]
             more == Process(c, bytes, flush)
         IN  \E chunks \in Seq(Chunk) :
               /\ more \in WriteCall /\ more.pc = "feed" /\ more.fed = c.fed /\ more.data = c.data
               /\ more.zip = c.zip /\ more.size = c.size /\ more.kind = "stream" /\ Sealed(more)
               /\ more.ids = Encoded(c, chunks).ids /\ more.pending = Encoded(c, chunks).pending
               /\ Len(more.ids) = Len(c.ids) + Len(chunks)
               /\ Len(more.buffer) < c.size /\ (flush => more.buffer = <<>>)
               /\ Join(Plain(c.zip, more.pending)) \o more.buffer = SubSeq(c.data, 1, c.fed) \o bytes
<1> DEFINE c == call[t]
           more == Process(c, bytes, flush)
<1>1. c \in WriteCall /\ WriterOK(c, holographic, store, corr, log) /\ c.pc = "feed"
  BY WriterHas DEF WritePCs
<1> HIDE DEF c
<1>2. c.zip \in BOOLEAN /\ c.pending \in Seq(Chunk) /\ c.buffer \in Seq(Bytes)
  BY <1>1 DEF WriteCall
<1>3. PICK now \in Seq(Seq(Bytes)), rest \in Seq(Bytes) :
        /\ more = [Encoded(c, Zipped(c, now)) EXCEPT !.buffer = rest]
        /\ Len(rest) < c.size /\ (flush => rest = <<>>)
        /\ Join(now) \o rest = c.buffer \o bytes
  BY <1>1, ProcessOK
<1> HIDE DEF more
<1> DEFINE chunks == Zipped(c, now)
<1>4. chunks \in Seq(Chunk) /\ Plain(c.zip, chunks) = now /\ (c.zip => EachWrapped(chunks))
  BY <1>2, ZippedPlain
<1> HIDE DEF chunks
<1>5. /\ more \in WriteCall /\ more.pc = "feed" /\ more.fed = c.fed /\ more.data = c.data
      /\ more.zip = c.zip /\ more.size = c.size /\ more.buffer = rest
      /\ more.ids = Encoded(c, chunks).ids /\ more.pending = Encoded(c, chunks).pending
      /\ more.pending = c.pending \o chunks /\ more.kind = c.kind
  <2>1. Encoded(c, chunks) \in WriteCall
    BY <1>1, <1>4, EncodedType
  <2>2. more = [Encoded(c, chunks) EXCEPT !.buffer = rest]
    BY <1>3 DEF chunks
  <2> QED BY <1>1, <2>1, <2>2 DEF Encoded, WriteCall
<1>6. Len(more.ids) = Len(c.ids) + Len(chunks)
  BY <1>1, <1>4, <1>5, EncodedType
<1>7. Join(Plain(c.zip, more.pending)) \o more.buffer = SubSeq(c.data, 1, c.fed) \o bytes
  <2> DEFINE S == Bytes \cup {Envelope}
             plain == Plain(c.zip, c.pending)
             a == Join(plain)
             b == Join(now)
             y == c.buffer
  <2>1. Plain(c.zip, c.pending \o chunks) = plain \o now /\ plain \in Seq(Chunk)
    BY <1>2, <1>4, PlainConcat
  <2>2. /\ plain \in Seq(Seq(S)) /\ now \in Seq(Seq(S)) /\ rest \in Seq(S)
        /\ y \in Seq(S) /\ bytes \in Seq(S)
    <3>1. Bytes \subseteq S
      OBVIOUS
    <3>2. Seq(Bytes) \subseteq Seq(S)
      BY <3>1, SeqMonotonic
    <3> QED BY <1>2, <2>1, <3>2, SeqMonotonic DEF Chunk
  <2>3. a \o y = SubSeq(c.data, 1, c.fed)
    BY <1>1 DEF WriterOK
  <2>4. b \o rest = y \o bytes
    BY <1>3
  <2>5. Plain(c.zip, more.pending) = plain \o now
    BY <1>5, <2>1
  <2>6. Join(plain \o now) = a \o b /\ a \in Seq(S) /\ b \in Seq(S)
    <3> HIDE DEF S, plain
    <3> QED BY <2>2, JoinConcat
  <2> HIDE DEF S, a, b, y, plain
  <2>7. (a \o b) \o rest = a \o (b \o rest)
    <3>1. Regroups(a, b, rest)
      BY <2>2, <2>6, Regrouped
    <3> QED BY <3>1 DEF Regroups
  <2>8. a \o (y \o bytes) = (a \o y) \o bytes
    <3> DEFINE z == bytes
    <3>1. a \in Seq(S) /\ y \in Seq(S) /\ z \in Seq(S)
      BY <2>2, <2>6
    <3> HIDE DEF z
    <3>2. (a \o y) \o z = a \o (y \o z)
      <4>1. Regroups(a, y, z)
        BY <3>1, Regrouped
      <4> QED BY <4>1 DEF Regroups
    <3> QED BY <3>2 DEF z
  <2> QED BY <1>5, <2>3, <2>4, <2>5, <2>6, <2>7, <2>8
<1>8. Len(more.buffer) < c.size /\ (flush => more.buffer = <<>>)
  BY <1>3, <1>5
<1>9. Sealed(more) /\ more.kind = "stream"
  <2>1. Sealed(c) /\ c.kind = "stream"
    BY <1>1 DEF WriterOK, Sealed
  <2>2. c.zip => EachWrapped(c.pending)
    BY <2>1 DEF Sealed
  <2>3. c.zip => EachWrapped(more.pending)
    BY <1>2, <1>4, <1>5, <2>2, WrappedConcat
  <2> QED BY <1>5, <2>1, <2>3 DEF Sealed
<1> QED BY <1>4, <1>5, <1>6, <1>7, <1>8, <1>9 DEF c, more

\* ingest_bytes and its forms: no byte is lost.
LEMMA FeedOK ==
  ASSUME Inductive, NEW t \in Threads, NEW n \in Pieces, Feed(t, n)
  PROVE  Inductive'
<1> DEFINE c == call[t]
           bytes == Slice(c.data, c.fed, n)
           more == Process(c, bytes, FALSE)
           e == [more EXCEPT !.fed = @ + n]
<1>1. /\ c.pc = "feed" /\ c.fed + n <= Len(c.data) /\ Becomes(t, e)
      /\ nextId' = nextId + Len(more.ids) - Len(c.ids)
      /\ UNCHANGED <<files, store, storeVersion, corr, corrVersion, root, holographic, log>>
  BY DEF Feed
<1>2. /\ c \in WriteCall /\ WriterOK(c, holographic, store, corr, log)
      /\ c.data \in Seq(Bytes) /\ n \in Nat /\ Len(c.ids) \in Nat
  BY <1>1, WriterHas, CallsAssumption DEF WritePCs
<1>3. c.fed \in Nat /\ c.fed + n \in Nat /\ Len(c.data) \in Nat
  BY <1>2, LenProperties DEF WriteCall
<1>4. bytes \in Seq(Bytes) /\ SubSeq(c.data, 1, c.fed) \o bytes = SubSeq(c.data, 1, c.fed + n)
  <2> DEFINE d == c.data
             a == c.fed
  <2>1. d \in Seq(Bytes) /\ a \in Nat /\ n \in Nat /\ a + n <= Len(d) /\ Len(d) \in Nat
    BY <1>1, <1>2, <1>3
  <2> HIDE DEF d, a, c
  <2>2. MinOf(a + n, Len(d)) = a + n
    BY <2>1 DEF MinOf
  <2>3. Slice(d, a, n) = SubSeq(d, a + 1, a + n)
    BY <2>2 DEF Slice
  <2>4. SubSeq(d, a + 1, a + n) \in Seq(Bytes)
    <3>1. \A i \in (a + 1)..(a + n) : i \in 1..Len(d)
      BY <2>1
    <3>2. \A i \in (a + 1)..(a + n) : d[i] \in Bytes
      BY <2>1, <3>1, ElementOfSeq
    <3> QED BY <2>1, <3>2, SubSeqProperties
  <2>5. SubSeq(d, 1, a) \o SubSeq(d, a + 1, a + n) = SubSeq(d, 1, a + n)
    <3>1. 1 \in 1..(Len(d) + 1) /\ a \in (1 - 1)..Len(d) /\ a + n \in a..Len(d)
      BY <2>1
    <3> QED BY <2>1, <3>1, ConcatAdjacentSubSeq
  <2> QED BY <2>3, <2>4, <2>5 DEF a, d
<1> HIDE DEF bytes
<1>5. PICK chunks \in Seq(Chunk) :
        /\ more \in WriteCall /\ more.pc = "feed" /\ more.fed = c.fed /\ more.data = c.data
        /\ more.zip = c.zip /\ more.size = c.size /\ more.kind = "stream" /\ Sealed(more)
        /\ more.ids = Encoded(c, chunks).ids /\ more.pending = Encoded(c, chunks).pending
        /\ Len(more.ids) = Len(c.ids) + Len(chunks) /\ Len(more.buffer) < c.size
        /\ Join(Plain(c.zip, more.pending)) \o more.buffer = SubSeq(c.data, 1, c.fed) \o bytes
  <2>1. FALSE \in BOOLEAN
    OBVIOUS
  <2> HIDE DEF more, c
  <2> QED BY <1>1, <1>4, <2>1, Drained DEF more, c
<1> HIDE DEF more, c
<1>6. /\ e \in WriteCall /\ e.ids = more.ids /\ e.pending = more.pending /\ e.buffer = more.buffer
      /\ e.pc = "feed" /\ e.fed = c.fed + n /\ e.data = c.data /\ e.zip = c.zip /\ e.size = c.size
      /\ e.kind = "stream"
  BY <1>3, <1>5 DEF WriteCall
<1>7. Becomes(t, e)
  BY <1>1
<1> HIDE DEF e
<1>8. nextId' = nextId + Len(chunks)
  <2>1. Len(chunks) \in Nat /\ nextId \in Nat
    BY LenProperties DEF Inductive, Typed
  <2> QED BY <1>1, <1>2, <1>5, <2>1
<1>9. Len(c.ids) = Len(c.pending) /\ Distinct(c.ids)
  BY <1>2 DEF WriterOK
<1>10. call[t].pc = "feed" /\ c.ids = call[t].ids
  BY <1>1 DEF c
<1>11. /\ e.fed <= Len(e.data) /\ Len(e.buffer) < e.size
       /\ Join(Plain(e.zip, e.pending)) \o e.buffer = SubSeq(e.data, 1, e.fed)
  BY <1>1, <1>4, <1>5, <1>6
<1>12. e.ids = Encoded(c, chunks).ids /\ e.pending = Encoded(c, chunks).pending
  BY <1>5, <1>6
<1>13. Sealed(e)
  BY <1>5, <1>6 DEF Sealed
<1> QED BY <1>1, <1>2, <1>6, <1>7, <1>8, <1>9, <1>10, <1>11, <1>12, <1>13, Allocated

\* finalize: the chunks of all that was fed, or the call has failed.
LEMMA FinalizeOK ==
  ASSUME Inductive, NEW t \in Threads, Finalize(t)
  PROVE  Inductive'
<1> DEFINE c == call[t]
           all == Process(c, <<>>, TRUE)
           e == [all EXCEPT !.pc = "insert"]
<1>1. /\ c.pc = "feed" /\ c.fed = Len(c.data) /\ (Becomes(t, e) \/ Becomes(t, Failed))
      /\ nextId' = nextId + Len(all.ids) - Len(c.ids)
      /\ UNCHANGED <<files, store, storeVersion, corr, corrVersion, root, holographic, log>>
  BY DEF Finalize
<1>2. /\ c \in WriteCall /\ WriterOK(c, holographic, store, corr, log)
      /\ c.data \in Seq(Bytes) /\ Len(c.ids) \in Nat
  BY <1>1, WriterHas DEF WritePCs
<1>3. PICK chunks \in Seq(Chunk) :
        /\ all \in WriteCall /\ all.pc = "feed" /\ all.fed = c.fed /\ all.data = c.data
        /\ all.zip = c.zip /\ all.size = c.size /\ all.kind = "stream" /\ Sealed(all)
        /\ all.ids = Encoded(c, chunks).ids /\ all.pending = Encoded(c, chunks).pending
        /\ Len(all.ids) = Len(c.ids) + Len(chunks) /\ all.buffer = <<>>
        /\ Join(Plain(c.zip, all.pending)) \o all.buffer = SubSeq(c.data, 1, c.fed) \o <<>>
  <2>1. TRUE \in BOOLEAN /\ <<>> \in Seq(Bytes)
    BY EmptySeq
  <2> HIDE DEF all, c
  <2> QED BY <1>1, <2>1, Drained DEF all, c
<1> HIDE DEF all, c
<1>4. nextId' = nextId + Len(chunks) /\ nextId' \in Nat \ {0} /\ nextId <= nextId'
  <2>1. Len(chunks) \in Nat /\ nextId \in Nat \ {0}
    BY LenProperties DEF Inductive, Typed
  <2> QED BY <1>1, <1>2, <1>3, <2>1
<1>5. CASE Becomes(t, Failed)
  BY <1>1, <1>4, <1>5, EndedOK, QuietStep
<1>6. CASE Becomes(t, e)
  <2>1. /\ e \in WriteCall /\ e.ids = all.ids /\ e.pending = all.pending
        /\ e.pc = "insert" /\ e.data = c.data /\ e.zip = c.zip /\ e.kind = "stream"
    BY <1>3 DEF WriteCall, WritePCs
  <2> HIDE DEF e
  <2>2. Join(Plain(e.zip, e.pending)) = e.data
    <3> DEFINE j == Join(Plain(c.zip, all.pending))
               d == c.data
    <3>1. SubSeq(d, 1, Len(d)) = d /\ d \in Seq(Bytes)
      BY <1>2, SubSeqFull
    <3>2. j \in Seq(Bytes \cup {Envelope})
      <4>1. c.zip \in BOOLEAN /\ all.pending \in Seq(Chunk)
        BY <1>2, <1>3 DEF WriteCall
      <4>2. Plain(c.zip, all.pending) \in Seq(Seq(Bytes \cup {Envelope}))
        BY <4>1, PlainConcat DEF Chunk
      <4> HIDE DEF j
      <4>3. Join(Plain(c.zip, all.pending)) \in Seq(Bytes \cup {Envelope})
        BY <4>2, JoinConcat
      <4> QED BY <4>3 DEF j
    <3>3. j \o <<>> = SubSeq(d, 1, Len(d)) \o <<>>
      BY <1>1, <1>3
    <3>4. j = d
      <4> HIDE DEF j, d
      <4>1. j \o <<>> = j /\ d \o <<>> = d
        BY <3>1, <3>2, ConcatEmptySeq
      <4> QED BY <3>1, <3>3, <4>1
    <3> QED BY <2>1, <3>4
  <2>3. Len(c.ids) = Len(c.pending) /\ Distinct(c.ids)
    BY <1>2 DEF WriterOK
  <2>4. call[t].pc = "feed" /\ c.ids = call[t].ids
    BY <1>1 DEF c
  <2>5. e.ids = Encoded(c, chunks).ids /\ e.pending = Encoded(c, chunks).pending
    BY <1>3, <2>1
  <2>6. Sealed(e)
    BY <1>3, <2>1 DEF Sealed
  <2> QED BY <1>1, <1>2, <1>4, <1>6, <2>1, <2>2, <2>3, <2>4, <2>5, <2>6, Allocated
<1> QED BY <1>1, <1>5, <1>6

\* A content cut at once, compressed as a whole or not.
LEMMA CutChunks ==
  ASSUME NEW d \in Seq(Bytes), NEW n \in Nat \ {0}, NEW zip \in BOOLEAN
  PROVE  LET chunks == Cut(IF zip THEN Wrap(d) ELSE d, n)
         IN  /\ chunks \in Seq(Chunk) /\ Join(Plain(zip, chunks)) = d
             /\ zip => Join(chunks) = Wrap(d)
<1> DEFINE S == Bytes \cup {Envelope}
<1>1. d \in Seq(S) /\ Wrap(d) \in Seq(S)
  <2>1. Bytes \subseteq S
    OBVIOUS
  <2> QED BY <2>1, SeqMonotonic, Unwrapped DEF Chunk
<1>2. CASE zip
  <2>1. Cut(Wrap(d), n) \in Seq(Seq(S)) /\ Join(Cut(Wrap(d), n)) = Wrap(d)
    <3> DEFINE w == Wrap(d)
    <3>1. w \in Seq(S)
      BY <1>1
    <3> HIDE DEF S, w
    <3>2. CutInto(S, w, n, Cut(w, n), CeilDiv(Len(w), n)) /\ Join(Cut(w, n)) = w
      BY <3>1, CutPieces, JoinCut
    <3> QED BY <3>2 DEF CutInto, w
  <2> QED BY <1>2, <2>1, JoinUnwrapped DEF Chunk
<1>3. CASE ~zip
  <2> DEFINE chunks == Cut(d, n)
  <2>1. chunks \in Seq(Seq(S)) /\ Join(chunks) = d
    <3> HIDE DEF S
    <3> QED BY <1>1, CutPieces, JoinCut DEF CutInto
  <2> HIDE DEF chunks, S
  <2>2. Plain(FALSE, chunks) = chunks
    <3>1. chunks = [i \in DOMAIN chunks |-> chunks[i]]
      BY <2>1
    <3> QED BY <3>1 DEF Plain
  <2> QED BY <1>3, <2>1, <2>2 DEF Chunk, chunks, S
<1> QED BY <1>2, <1>3

\* What a call holds that has encoded all its data at once.
LEMMA EncodedAtOnce ==
  ASSUME Inductive, NEW w \in WriteCall, w.ids = <<>>, w.pending = <<>>, NEW chunks \in Seq(Chunk)
  PROVE  /\ Len(w.ids) = 0 /\ Len(w.pending) = 0
         /\ Encoded(w, chunks) \in WriteCall /\ Encoded(w, chunks).pending = chunks
<1>1. Len(<<>>) = 0 /\ <<>> \o chunks = chunks
  BY EmptySeq, ConcatEmptySeq
<1>2. Encoded(w, chunks).pending = chunks
  BY <1>1 DEF Encoded, WriteCall
<1> QED BY <1>1, <1>2, EncodedType

\* write_large_file, up to where its chunks are encoded.
LEMMA WriteLargeOK ==
  ASSUME Inductive, NEW t \in Threads, NEW p \in Paths, NEW data \in Contents,
         NEW v \in Expectations(p), NEW size \in EntropySizes, WriteLarge(t, p, data, v, size)
  PROVE  Inductive'
<1> DEFINE w == Writer("large", p, data, v, size, FALSE)
           chunks == Cut(data, size)
           ready == Encoded(w, chunks)
           e == [ready EXCEPT !.pc = "insert", !.fed = Len(w.data)]
<1>1. EncodeLarge(t, w, chunks)
  BY DEF WriteLarge, WriteFlat, WriteHierarchical
<1>2. /\ Free(t) /\ Becomes(t, e) /\ nextId' = nextId + Len(chunks)
      /\ UNCHANGED <<files, store, storeVersion, corr, corrVersion, root, holographic, log>>
  BY <1>1 DEF EncodeLarge, Ready
<1>3. size \in Nat \ {0} /\ data \in Seq(Bytes) /\ FALSE \in BOOLEAN
  BY SizesAssumption, ContentsAssumption
<1>4. w \in WriteCall
  <2>1. v \in Nat \cup {None} /\ "large" \in WriteKinds
    BY ExpectationType DEF Inductive, WriteKinds
  <2> QED BY <1>3, <2>1, WriterType
<1>5. w.ids = <<>> /\ w.pending = <<>> /\ w.data = data /\ w.zip = FALSE /\ w.kind = "large"
  BY DEF Writer
<1>6. chunks \in Seq(Chunk) /\ Join(Plain(FALSE, chunks)) = data
  <2>1. LET x == Cut(IF FALSE THEN Wrap(data) ELSE data, size)
        IN  x \in Seq(Chunk) /\ Join(Plain(FALSE, x)) = data
    BY <1>3, CutChunks
  <2> QED BY <2>1
<1> HIDE DEF w, chunks
<1>7. Len(w.ids) = 0 /\ Len(w.pending) = 0 /\ ready \in WriteCall /\ ready.pending = chunks
  BY <1>4, <1>5, <1>6, EncodedAtOnce
<1>8. ready.zip = FALSE /\ ready.data = data /\ ready.kind = "large"
  BY <1>4, <1>5 DEF Encoded, WriteCall
<1>9. Len(w.data) \in Nat
  BY <1>3, <1>5, LenProperties
<1>10. /\ e \in WriteCall /\ e.pc = "insert" /\ e.ids = Encoded(w, chunks).ids
       /\ e.pending = Encoded(w, chunks).pending /\ Join(Plain(e.zip, e.pending)) = e.data
       /\ Sealed(e)
  <2> HIDE DEF ready
  <2>1. /\ e \in WriteCall /\ e.pc = "insert" /\ e.ids = ready.ids /\ e.pending = ready.pending
        /\ e.zip = ready.zip /\ e.data = ready.data /\ e.kind = ready.kind
    BY <1>7, <1>9 DEF WriteCall, WritePCs
  <2> HIDE DEF e
  <2>2. Sealed(e)
    BY <1>8, <2>1 DEF Sealed
  <2> QED BY <1>6, <1>7, <1>8, <2>1, <2>2 DEF ready
<1> HIDE DEF e, ready
<1>11. /\ Len(w.ids) = Len(w.pending) /\ Distinct(w.ids)
       /\ call[t].pc \notin {"corrVersion", "correct"}
  BY <1>2, <1>7 DEF Free, Distinct
<1> QED BY <1>2, <1>4, <1>6, <1>7, <1>10, <1>11, Allocated

\* write_file_compressed and write_file_holographic encode their data.
LEMMA PrepareOK ==
  ASSUME Inductive, NEW t \in Threads, Prepare(t)
  PROVE  Inductive'
<1> DEFINE w == call[t]
           chunks == Cut(IF w.zip THEN Wrap(w.data) ELSE w.data, w.size)
           ready == Encoded(w, chunks)
           e == [ready EXCEPT !.pc = "insert", !.fed = Len(w.data), !.storeVer = storeVersion]
<1>1. /\ w.pc = "begin" /\ Becomes(t, e) /\ nextId' = nextId + Len(chunks)
      /\ UNCHANGED <<files, store, storeVersion, corr, corrVersion, root, holographic, log>>
  BY DEF Prepare
<1>2. w \in WriteCall /\ WriterOK(w, holographic, store, corr, log) /\ w.data \in Seq(Bytes)
  BY <1>1, WriterHas DEF WritePCs
<1>3. w.ids = <<>> /\ w.pending = <<>>
  BY <1>1, <1>2 DEF WriterOK
<1>4. /\ w.zip \in BOOLEAN /\ w.size \in Nat \ {0} /\ call[t].pc = "begin"
      /\ w.kind \in {"compressed", "holographic"} /\ (w.zip => w.kind \in {"stream", "compressed"})
  BY <1>1, <1>2 DEF WriteCall, WriterOK, Sealed
<1> HIDE DEF w
<1>5. /\ chunks \in Seq(Chunk) /\ Join(Plain(w.zip, chunks)) = w.data
      /\ w.zip => Join(chunks) = Wrap(w.data)
  BY <1>2, <1>4, CutChunks
<1> HIDE DEF chunks
<1>6. Len(w.ids) = 0 /\ Len(w.pending) = 0 /\ ready \in WriteCall /\ ready.pending = chunks
  BY <1>2, <1>3, <1>5, EncodedAtOnce
<1>7. ready.zip = w.zip /\ ready.data = w.data /\ ready.kind = w.kind
  BY <1>2 DEF Encoded, WriteCall
<1>8. Len(w.data) \in Nat /\ storeVersion \in Nat
  BY <1>2, LenProperties DEF Inductive, Typed
<1>9. /\ e \in WriteCall /\ e.pc = "insert" /\ e.ids = Encoded(w, chunks).ids
      /\ e.pending = Encoded(w, chunks).pending /\ Join(Plain(e.zip, e.pending)) = e.data
      /\ Sealed(e)
  <2> HIDE DEF ready
  <2>1. /\ e \in WriteCall /\ e.pc = "insert" /\ e.ids = ready.ids /\ e.pending = ready.pending
        /\ e.zip = ready.zip /\ e.data = ready.data /\ e.kind = ready.kind
    BY <1>6, <1>8 DEF WriteCall, WritePCs
  <2> HIDE DEF e
  <2>2. Sealed(e)
    BY <1>4, <1>5, <1>6, <1>7, <2>1 DEF Sealed
  <2> QED BY <1>5, <1>6, <1>7, <2>1, <2>2 DEF ready
<1>10. Becomes(t, e)
  BY <1>1
<1> HIDE DEF e, ready
<1>11. /\ Len(w.ids) = Len(w.pending) /\ Distinct(w.ids)
       /\ call[t].pc \notin {"corrVersion", "correct"}
  BY <1>4, <1>6 DEF Distinct
<1> QED BY <1>1, <1>2, <1>5, <1>6, <1>9, <1>10, <1>11, Allocated
-----------------------------------------------------------------------------
(* Steps that insert, publish and answer *)

\* m2 is m with the values under the ids, none of which twice or in m.
Adds(m, m2, ids, values) ==
  /\ ids \in Seq(Nat) /\ Distinct(ids)
  /\ \A id \in ToSet(ids) : id \notin DOMAIN m
  /\ m2 = Over(Batch(ids, values), m)

\* A batch under ids the map does not know yet.
LEMMA BatchAdded ==
  ASSUME NEW m, NEW m2, NEW ids, NEW values, Adds(m, m2, ids, values)
  PROVE  /\ Keeps(m, m2) /\ DOMAIN m2 = DOMAIN m \cup ToSet(ids)
         /\ InCorr(ids, values, m2)
<1> DEFINE b == Batch(ids, values)
<1>1. DOMAIN ids = 1..Len(ids) /\ Len(ids) \in Nat
  BY LenProperties DEF Adds
<1>2. ToSet(ids) = {ids[i] : i \in 1..Len(ids)}
  BY <1>1 DEF ToSet
<1>3. DOMAIN b = ToSet(ids)
  BY DEF Batch
<1>4. ASSUME NEW i \in 1..Len(ids) PROVE ids[i] \in ToSet(ids) /\ b[ids[i]] = values[i]
  <2>1. (CHOOSE j \in DOMAIN ids : ids[j] = ids[i]) = i
    BY <1>1 DEF Adds, Distinct
  <2>2. ids[i] \in ToSet(ids)
    BY <1>2
  <2> QED BY <2>1, <2>2 DEF Batch
<1> HIDE DEF b
<1>5. /\ DOMAIN m2 = DOMAIN b \cup DOMAIN m
      /\ \A x \in DOMAIN m2 : m2[x] = IF x \in DOMAIN b THEN b[x] ELSE m[x]
  BY DEF Over, Adds, b
<1>6. Keeps(m, m2)
  BY <1>3, <1>5 DEF Keeps, Adds
<1>7. \A i \in 1..Len(ids) : ids[i] \in DOMAIN m2 /\ m2[ids[i]] = values[i]
  BY <1>3, <1>4, <1>5
<1> QED BY <1>3, <1>5, <1>6, <1>7 DEF InCorr

\* A step after which a store holds more, and the thread is in call c, under
\* ids it already had or under none.
LEMMA GrowStep ==
  ASSUME Inductive, NEW t \in Threads, NEW c, Becomes(t, c), c.pc \in PCs,
         CallOK(c, holographic, store', corr', log, root),
         Keeps(store, store'), Keeps(corr, corr'),
         DOMAIN store' \subseteq DOMAIN store \cup Owned(call[t]),
         DOMAIN corr' \subseteq DOMAIN corr \cup Owned(call[t]),
         Owned(c) \subseteq Owned(call[t]), c.pc \notin {"feed", "insert"},
         Owned(c) # {} => DOMAIN corr' \subseteq DOMAIN corr,
         storeVersion' \in Nat, corrVersion' \in Nat,
         UNCHANGED <<files, nextId, root, holographic, log>>
  PROVE  Inductive'
<1>1. Typed /\ Fresh /\ CallsOK /\ FilesHold
  BY DEF Inductive
<1>2. call' = [u \in Threads |-> call'[u]] /\ call'[t] = c /\ \A u \in Threads : u # t => call'[u] = call[u]
  BY <1>1, CallMoves
<1>3. Longer(log, log')
  BY <1>1, SameLog
<1>4. Typed'
  <2>1. \A u \in Threads : call'[u].pc \in PCs
    BY <1>1, <1>2 DEF Typed
  <2>2. Owned(call[t]) \subseteq 1..(nextId - 1)
    BY <1>1 DEF Fresh
  <2>3. DOMAIN store' \cup DOMAIN corr' \cup root' \subseteq 1..(nextId' - 1)
    BY <1>1, <2>2 DEF Typed
  <2> QED BY <1>1, <1>2, <2>1, <2>3 DEF Typed
<1>5. Fresh'
  <2>1. nextId' \in Nat /\ nextId <= nextId'
    BY <1>1 DEF Typed
  <2> QED BY <1>1, <2>1, FreshStep
<1>6. CallsOK'
  BY <1>1, <1>3, CallsStep
<1>7. FilesHold'
  BY <1>1, FilesKept
<1> QED BY <1>4, <1>5, <1>6, <1>7 DEF Inductive

\* batch_insert, batch_insert_new and batch_update of the chunk store.
LEMMA InsertChunksOK ==
  ASSUME Inductive, NEW t \in Threads, InsertChunks(t)
  PROVE  Inductive'
<1> DEFINE c == call[t]
           e == [c EXCEPT !.pc = IF Conditional(c) THEN "corrVersion" ELSE "correct"]
<1>1. /\ c.pc = "insert"
      /\ \/ Becomes(t, Failed) /\ UNCHANGED <<store, storeVersion>>
         \/ /\ store' = Over(Batch(c.ids, Vectors(c)), store)
            /\ storeVersion' = storeVersion + 1 /\ Becomes(t, e)
      /\ UNCHANGED <<files, corr, corrVersion, nextId, root, holographic, calls, log>>
  BY DEF InsertChunks
<1>2. c \in WriteCall /\ WriterOK(c, holographic, store, corr, log)
      /\ DOMAIN c.ids = 1..Len(c.ids) /\ Len(c.ids) \in Nat
  BY <1>1, WriterHas DEF WritePCs
<1>3. nextId \in Nat \ {0} /\ storeVersion \in Nat /\ corrVersion \in Nat
  BY DEF Inductive, Typed
<1>4. Owned(c) = ToSet(c.ids) /\ \A id \in ToSet(c.ids) : id \notin DOMAIN store /\ id \notin DOMAIN corr
  BY <1>1 DEF Inductive, Fresh, Owned
<1>5. Owned(call[t]) = Owned(c)
  OBVIOUS
<1> HIDE DEF c
<1>6. CASE Becomes(t, Failed) /\ UNCHANGED <<store, storeVersion>>
  BY <1>1, <1>3, <1>6, EndedOK, QuietStep
<1>7. CASE /\ store' = Over(Batch(c.ids, Vectors(c)), store)
           /\ storeVersion' = storeVersion + 1 /\ Becomes(t, e)
  <2>1. /\ e \in WriteCall /\ e.pc \in {"corrVersion", "correct"} /\ e.ids = c.ids /\ e.pending = c.pending
        /\ e.kind = c.kind /\ e.zip = c.zip /\ e.data = c.data
    BY <1>2 DEF WriteCall, WritePCs
  <2> HIDE DEF e
  <2>2. c.ids \in Seq(Nat) /\ c.pending \in Seq(Chunk) /\ Len(c.pending) = Len(c.ids)
    BY <1>2 DEF WriteCall, WriterOK
  <2>3. /\ Keeps(store, store') /\ DOMAIN store' = DOMAIN store \cup ToSet(c.ids)
        /\ \A i \in 1..Len(c.ids) : c.ids[i] \in DOMAIN store' /\ store'[c.ids[i]] = Vectors(c)[i]
    <3> DEFINE ids == c.ids
               values == Vectors(c)
               m == store
               m2 == store'
    <3>1. Adds(m, m2, ids, values)
      BY <1>2, <1>4, <1>7, <2>2 DEF WriterOK, Adds
    <3> HIDE DEF ids, values, m, m2
    <3>2. /\ Keeps(m, m2) /\ DOMAIN m2 = DOMAIN m \cup ToSet(ids)
          /\ InCorr(ids, values, m2)
      BY <3>1, BatchAdded
    <3> QED BY <3>2 DEF ids, values, m, m2, InCorr
  <2>4. \A i \in 1..Len(c.ids) : Vectors(c)[i] = [bytes |-> e.pending[i], format |-> EncodingIn(holographic, e)]
    <3>1. DOMAIN c.pending = 1..Len(c.ids)
      BY <2>2, LenProperties
    <3> QED BY <2>1, <3>1 DEF Vectors, FormatOf, Format, EncodingIn
  <2>5. InStore(e.ids, e.pending, EncodingIn(holographic, e), store')
    BY <2>1, <2>3, <2>4 DEF InStore
  <2>6. WriterOK(e, holographic, store', corr', log)
    <3>1. Sealed(e)
      BY <1>1, <1>2, <2>1 DEF WriterOK, Sealed
    <3> QED BY <1>1, <1>2, <2>1, <2>5, <3>1 DEF WriterOK
  <2>7. /\ CallOK(e, holographic, store', corr', log, root) /\ e.pc \in PCs
        /\ Owned(e) = Owned(c) /\ e.pc \notin {"feed", "insert"}
    BY <1>4, <2>1, <2>6 DEF CallOK, PCs, Owned
  <2>8. /\ storeVersion' \in Nat /\ corrVersion' \in Nat /\ Keeps(corr, corr')
        /\ UNCHANGED <<files, nextId, root, holographic, log>> /\ DOMAIN corr' = DOMAIN corr
    BY <1>1, <1>3, <1>7 DEF Keeps
  <2>9. DOMAIN store' \subseteq DOMAIN store \cup Owned(call[t]) /\ Owned(e) \subseteq Owned(call[t])
    BY <1>4, <1>5, <2>3, <2>7
  <2> QED BY <1>7, <2>3, <2>7, <2>8, <2>9, GrowStep
<1> QED BY <1>1, <1>6, <1>7

\* The version of the correction store is read.
LEMMA ReadCorrVersionOK ==
  ASSUME Inductive, NEW t \in Threads, ReadCorrVersion(t)
  PROVE  Inductive'
<1> DEFINE c == call[t]
           e == [c EXCEPT !.pc = "correct", !.corrVer = corrVersion]
<1>1. c.pc = "corrVersion" /\ Becomes(t, e) /\ UNCHANGED <<files, stores, root, holographic, calls, log>>
  BY DEF ReadCorrVersion
<1>2. c \in WriteCall /\ WriterOK(c, holographic, store, corr, log)
  BY <1>1, WriterHas DEF WritePCs
<1>3. nextId \in Nat \ {0} /\ corrVersion \in Nat
  BY DEF Inductive, Typed
<1>4. Owned(call[t]) = ToSet(c.ids)
  BY <1>1 DEF Owned
<1> HIDE DEF c
<1>5. /\ e \in WriteCall /\ e.pc = "correct" /\ e.ids = c.ids /\ e.pending = c.pending
      /\ e.kind = c.kind /\ e.zip = c.zip /\ e.data = c.data
  BY <1>2, <1>3 DEF WriteCall, WritePCs
<1>6. Becomes(t, e)
  BY <1>1
<1> HIDE DEF e
<1>7. WriterOK(e, holographic, store, corr, log)
  <2>1. Sealed(e)
    BY <1>1, <1>2, <1>5 DEF WriterOK, Sealed
  <2> QED BY <1>1, <1>2, <1>5, <2>1 DEF WriterOK, EncodingIn
<1>8. e.pc \in PCs /\ CallOK(e, holographic, store, corr, log, root) /\ Owned(e) = ToSet(c.ids)
  BY <1>5, <1>7 DEF CallOK, PCs, Owned
<1>9. nextId' \in Nat \ {0} /\ nextId <= nextId'
  BY <1>1, <1>3 DEF stores
<1> QED BY <1>1, <1>4, <1>5, <1>6, <1>8, <1>9, LocalStep DEF stores

\* The same of the correction store: from here on the call owns no ids.
LEMMA InsertCorrectionsOK ==
  ASSUME Inductive, NEW t \in Threads, InsertCorrections(t)
  PROVE  Inductive'
<1> DEFINE c == call[t]
           e == [c EXCEPT !.pc = "publish"]
<1>1. /\ c.pc = "correct"
      /\ \/ Becomes(t, Failed) /\ UNCHANGED <<corr, corrVersion>>
         \/ /\ corr' = Over(Batch(c.ids, c.pending), corr)
            /\ corrVersion' = corrVersion + 1 /\ Becomes(t, e)
      /\ UNCHANGED <<files, store, storeVersion, nextId, root, holographic, calls, log>>
  BY DEF InsertCorrections
<1>2. c \in WriteCall /\ WriterOK(c, holographic, store, corr, log)
      /\ DOMAIN c.ids = 1..Len(c.ids) /\ Len(c.ids) \in Nat
  BY <1>1, WriterHas DEF WritePCs
<1>3. nextId \in Nat \ {0} /\ storeVersion \in Nat /\ corrVersion \in Nat
  BY DEF Inductive, Typed
<1>4. Owned(c) = ToSet(c.ids) /\ \A id \in ToSet(c.ids) : id \notin DOMAIN corr
  BY <1>1 DEF Inductive, Fresh, Owned
<1>5. Owned(call[t]) = Owned(c)
  OBVIOUS
<1> HIDE DEF c
<1>6. CASE Becomes(t, Failed) /\ UNCHANGED <<corr, corrVersion>>
  BY <1>1, <1>3, <1>6, EndedOK, QuietStep
<1>7. CASE /\ corr' = Over(Batch(c.ids, c.pending), corr)
           /\ corrVersion' = corrVersion + 1 /\ Becomes(t, e)
  <2>1. /\ e \in WriteCall /\ e.pc = "publish" /\ e.ids = c.ids /\ e.pending = c.pending
        /\ e.kind = c.kind /\ e.zip = c.zip /\ e.data = c.data
    BY <1>2 DEF WriteCall, WritePCs
  <2> HIDE DEF e
  <2>2. c.ids \in Seq(Nat)
    BY <1>2 DEF WriteCall
  <2>3. /\ Keeps(corr, corr') /\ DOMAIN corr' = DOMAIN corr \cup ToSet(c.ids)
        /\ \A i \in 1..Len(c.ids) : c.ids[i] \in DOMAIN corr' /\ corr'[c.ids[i]] = c.pending[i]
    <3> DEFINE ids == c.ids
               values == c.pending
               m == corr
               m2 == corr'
    <3>1. Adds(m, m2, ids, values)
      BY <1>2, <1>4, <1>7, <2>2 DEF WriterOK, Adds
    <3> HIDE DEF ids, values, m, m2
    <3>2. /\ Keeps(m, m2) /\ DOMAIN m2 = DOMAIN m \cup ToSet(ids)
          /\ InCorr(ids, values, m2)
      BY <3>1, BatchAdded
    <3> QED BY <3>2 DEF ids, values, m, m2, InCorr
  <2>4. InCorr(e.ids, e.pending, corr')
    BY <2>1, <2>3 DEF InCorr
  <2>5. store' = store /\ Keeps(store, store')
    BY <1>1 DEF Keeps
  <2>6. WriterOK(e, holographic, store', corr', log)
    <3>1. Sealed(e)
      BY <1>1, <1>2, <2>1 DEF WriterOK, Sealed
    <3> QED BY <1>1, <1>2, <2>1, <2>4, <2>5, <3>1 DEF WriterOK, EncodingIn
  <2>7. /\ CallOK(e, holographic, store', corr', log, root) /\ e.pc \in PCs
        /\ Owned(e) = {} /\ e.pc \notin {"feed", "insert"}
    BY <2>1, <2>6 DEF CallOK, PCs, Owned
  <2>8. /\ storeVersion' \in Nat /\ corrVersion' \in Nat
        /\ UNCHANGED <<files, nextId, root, holographic, log>>
    BY <1>1, <1>3, <1>7
  <2>9. DOMAIN corr' \subseteq DOMAIN corr \cup Owned(call[t]) /\ DOMAIN store' \subseteq DOMAIN store \cup Owned(call[t])
    BY <1>4, <1>5, <2>3, <2>5
  <2> QED BY <1>7, <2>3, <2>5, <2>7, <2>8, <2>9, GrowStep
<1> QED BY <1>1, <1>6, <1>7

\* One more publication of a path.
LEMMA LogAppended ==
  ASSUME Typed, NEW p \in Paths, NEW pub \in Publications,
         log' = [log EXCEPT ![p] = Append(@, pub)]
  PROVE  /\ log' \in [Paths -> Seq(Publications)] /\ Longer(log, log')
         /\ Len(log[p]) \in Nat /\ Len(log'[p]) = Len(log[p]) + 1
         /\ log'[p][Len(log[p]) + 1] = pub /\ Last(log'[p]) = pub
         /\ \A q \in Paths : q # p => log'[q] = log[q]
<1>1. log \in [Paths -> Seq(Publications)]
  BY DEF Typed
<1>2. \A q \in Paths : log'[q] = IF q = p THEN Append(log[p], pub) ELSE log[q]
  BY <1>1
<1> DEFINE s == log[p]
           n == Len(s)
           s2 == Append(s, pub)
<1>3. s \in Seq(Publications) /\ n \in Nat
  BY <1>1, LenProperties
<1> HIDE DEF s
<1>4. /\ s2 \in Seq(Publications) /\ Len(s2) = n + 1 /\ s2[n + 1] = pub
      /\ \A i \in 1..n : s2[i] = s[i]
  BY <1>3, AppendProperties
<1> HIDE DEF s2, n
<1>5. log'[p] = s2 /\ \A q \in Paths : q # p => log'[q] = log[q]
  BY <1>2 DEF s2, s
<1>6. log' \in [Paths -> Seq(Publications)]
  <2>1. Append(log[p], pub) \in Seq(Publications)
    BY <1>4 DEF s2, s
  <2> QED BY <1>1, <2>1
<1>7. Longer(log, log')
  <2>1. ASSUME NEW q \in Paths
        PROVE  /\ Len(log[q]) \in Nat /\ Len(log'[q]) \in Nat /\ Len(log[q]) <= Len(log'[q])
               /\ \A i \in 1..Len(log[q]) : log'[q][i] = log[q][i]
    <3>1. CASE q = p
      <4>1. Len(log[q]) = n /\ log'[q] = s2 /\ log[q] = s
        BY <1>5, <3>1 DEF n, s
      <4> QED BY <1>3, <1>4, <4>1
    <3>2. CASE q # p
      BY <1>1, <1>5, <3>2, LenProperties
    <3> QED BY <3>1, <3>2
  <2> QED BY <2>1 DEF Longer
<1>8. Last(log'[p]) = pub
  BY <1>4, <1>5 DEF Last
<1> QED BY <1>3, <1>4, <1>5, <1>6, <1>7, <1>8 DEF n, s

\* A step that publishes an entry of a path under the next version.
LEMMA ManifestStep ==
  ASSUME Inductive, NEW t \in Threads, NEW p \in Paths, NEW e \in Entry, NEW pub \in Publications,
         files' = [files EXCEPT ![p] = e], log' = [log EXCEPT ![p] = Append(@, pub)],
         e.version = Len(log[p]),
         ~e.deleted => EntryHolds(e, pub.content, store, corr),
         NEW c, Becomes(t, c), c.pc \in PCs, Owned(c) = {},
         CallOK(c, holographic, store, corr, log', root),
         UNCHANGED <<stores, root, holographic>>
  PROVE  Inductive'
<1>1. Typed /\ Fresh /\ CallsOK /\ FilesHold
  BY DEF Inductive
<1>2. call' = [u \in Threads |-> call'[u]] /\ call'[t] = c /\ \A u \in Threads : u # t => call'[u] = call[u]
  BY <1>1, CallMoves
<1>3. /\ log' \in [Paths -> Seq(Publications)] /\ Longer(log, log')
      /\ Len(log[p]) \in Nat /\ Len(log'[p]) = Len(log[p]) + 1 /\ Last(log'[p]) = pub
      /\ \A q \in Paths : q # p => log'[q] = log[q]
  BY <1>1, LogAppended
<1>4. files' \in [Paths -> Entry \cup {None}] /\ files'[p] = e /\ \A q \in Paths : q # p => files'[q] = files[q]
  BY <1>1 DEF Typed
<1>5. /\ store' = store /\ corr' = corr /\ nextId' = nextId /\ root' = root /\ holographic' = holographic
      /\ storeVersion' = storeVersion /\ corrVersion' = corrVersion
  BY DEF stores
<1>6. Keeps(store, store') /\ Keeps(corr, corr') /\ root \subseteq root'
  BY <1>5 DEF Keeps
<1>7. Typed'
  <2>1. \A u \in Threads : call'[u].pc \in PCs
    BY <1>1, <1>2 DEF Typed
  <2> QED BY <1>1, <1>2, <1>3, <1>4, <1>5, <2>1 DEF Typed
<1>8. Fresh'
  <2>1. nextId' \in Nat /\ nextId <= nextId' /\ DOMAIN store' \subseteq DOMAIN store /\ DOMAIN corr' \subseteq DOMAIN corr
    BY <1>1, <1>5 DEF Typed
  <2> QED BY <1>1, <2>1, FreshStep
<1>9. CallsOK'
  <2>1. CallOK(c, holographic', store', corr', log', root')
    BY <1>5
  <2> QED BY <1>1, <1>3, <1>5, <1>6, <2>1, CallsStep
<1>10. FilesHold'
  <2>1. ASSUME NEW q \in Paths
        PROVE  IF files'[q] = None THEN log'[q] = <<>>
               ELSE /\ Len(log'[q]) = files'[q].version + 1
                    /\ ~files'[q].deleted => EntryHolds(files'[q], Last(log'[q]).content, store', corr')
    <3>1. CASE q = p
      <4>1. files'[q] = e /\ e # None /\ log'[q] = log'[p]
        BY <1>4, <3>1, NoneAssumption
      <4> QED BY <1>3, <1>5, <4>1
    <3>2. CASE q # p
      <4>1. files'[q] = files[q] /\ log'[q] = log[q]
        BY <1>3, <1>4, <3>2
      <4> QED BY <1>1, <1>5, <4>1 DEF FilesHold
    <3> QED BY <3>1, <3>2
  <2> QED BY <2>1 DEF FilesHold
<1> QED BY <1>7, <1>8, <1>9, <1>10 DEF Inductive

\* The size in the entry of a writer: of a stream of compressed chunks it
\* falls short of what the chunks take, unless there are none.
LEMMA EntryMeasured ==
  ASSUME NEW c \in WriteCall, Sealed(c), c.pc # "begin", Join(Plain(c.zip, c.pending)) = c.data
  PROVE  Measured(EntryOf(c), c.pending, c.data)
<1> DEFINE e == EntryOf(c)
           data == c.data
           pending == c.pending
           n == Len(pending)
<1>1. e.zip = c.zip /\ e.size = IF c.zip /\ c.kind = "compressed" THEN Len(data) + 1 ELSE Len(data)
  BY DEF EntryOf
<1>2. data \in Seq(Bytes) /\ pending \in Seq(Chunk) /\ c.zip \in BOOLEAN /\ n \in Nat
  BY ContentsAssumption, LenProperties DEF WriteCall
<1>3. CASE ~c.zip
  BY <1>1, <1>3 DEF Measured
<1>4. CASE c.zip /\ c.kind = "compressed"
  <2>1. Join(pending) = Wrap(data)
    BY <1>4 DEF Sealed
  <2>2. Unwrap(Wrap(data)) = data
    BY <1>2, Unwrapped
  <2> HIDE DEF e, data, pending
  <2> QED BY <1>1, <1>4, <2>1, <2>2 DEF Measured, e, data, pending
<1>5. CASE c.zip /\ c.kind = "stream"
  <2>1. EachWrapped(pending) /\ e.size = Len(data) /\ e.zip
    BY <1>1, <1>5 DEF Sealed
  <2>2. Join(Plain(TRUE, pending)) = data
    BY <1>5
  <2> HIDE DEF e, data, pending
  <2>3. Len(Join(pending)) = Len(data) + n /\ Len(data) \in Nat
    BY <1>2, <2>1, <2>2, WrappedLength
  <2>4. ASSUME e.size = Len(Join(pending)) PROVE Unwrap(Join(pending)) = data
    <3>1. n = 0
      <4> HIDE DEF n
      <4> QED BY <1>2, <2>1, <2>3, <2>4
    <3>2. pending = <<>>
      BY <1>2, <3>1, EmptySeq
    <3>3. data = <<>>
      BY <2>2, <3>2, JoinEmpty
    <3>4. Join(<<>>) = <<>>
      <4>1. <<>> \in Seq(Chunk)
        BY EmptySeq
      <4>2. Plain(FALSE, <<>>) = <<>>
        BY <4>1, PlainAlone
      <4> QED BY <4>2, JoinEmpty
    <3> QED BY <3>2, <3>3, <3>4 DEF Unwrap
  <2>5. Measured(e, pending, data)
    BY <2>1, <2>4 DEF Measured
  <2> QED BY <2>5 DEF e, data, pending
<1> QED BY <1>2, <1>3, <1>4, <1>5 DEF Sealed

\* The stores hold what the entry of a writer stands for that has inserted
\* everything.
LEMMA WholeEntry ==
  ASSUME NEW c \in WriteCall, Len(c.ids) = Len(c.pending), Join(Plain(c.zip, c.pending)) = c.data,
         InStore(c.ids, c.pending, EncodingIn(holographic, c), store),
         InCorr(c.ids, c.pending, corr), Sealed(c), c.pc # "begin"
  PROVE  EntryHolds(EntryOf(c), c.data, store, corr)
<1> DEFINE e == EntryOf(c)
           ids == c.ids
           pending == c.pending
<1>1. ids \in Seq(Nat) /\ pending \in Seq(Chunk)
  BY DEF WriteCall
<1>2. e.chunks = ids /\ e.zip = c.zip /\ e.format = EncodingIn(holographic, c)
  BY DEF EntryOf, FormatOf, Format, EncodingIn
<1>3. /\ Len(ids) = Len(pending) /\ InStore(ids, pending, e.format, store)
      /\ InCorr(ids, pending, corr)
  BY <1>2
<1> HIDE DEF ids, pending, e
<1>4. \A i \in 1..Len(ids) : /\ ids[i] \in DOMAIN store /\ ids[i] \in DOMAIN corr
                             /\ store[ids[i]].bytes = pending[i] /\ store[ids[i]].format = e.format
                             /\ corr[ids[i]] = pending[i]
  <2> SUFFICES ASSUME NEW i \in 1..Len(ids)
               PROVE  /\ ids[i] \in DOMAIN store /\ ids[i] \in DOMAIN corr
                      /\ store[ids[i]].bytes = pending[i] /\ store[ids[i]].format = e.format
                      /\ corr[ids[i]] = pending[i]
    OBVIOUS
  <2> DEFINE x == store[ids[i]]
             fmt == e.format
  <2>1. ids[i] \in DOMAIN store /\ x = [bytes |-> pending[i], format |-> fmt]
    BY <1>3 DEF InStore
  <2>2. ids[i] \in DOMAIN corr /\ corr[ids[i]] = pending[i]
    BY <1>3 DEF InCorr
  <2>3. x.bytes = pending[i] /\ x.format = fmt
    <3> HIDE DEF x, fmt
    <3> QED BY <2>1
  <2> QED BY <2>1, <2>2, <2>3
<1>5. DOMAIN ids = 1..Len(ids) /\ DOMAIN pending = 1..Len(ids) /\ \A i \in 1..Len(ids) : pending[i] \in Chunk
  BY <1>1, <1>3, LenProperties, ElementOfSeq
<1>6. [i \in DOMAIN ids |-> store[ids[i]].bytes] = pending
  <2>1. pending = [i \in 1..Len(ids) |-> pending[i]]
    BY <1>1, <1>5
  <2> QED BY <1>4, <1>5, <2>1
<1>7. Join(Plain(c.zip, pending)) = c.data
  BY DEF pending
<1>8. BytesOf(e, store) = pending
  BY <1>2, <1>6 DEF BytesOf
<1>9. ChunksHeld(e, store, corr)
  BY <1>2, <1>4, <1>5 DEF ChunksHeld
<1>10. Measured(e, pending, c.data)
  <2>1. c \in WriteCall /\ Sealed(c)
    OBVIOUS
  <2>2. Measured(EntryOf(c), c.pending, c.data)
    BY <2>1, EntryMeasured
  <2> QED BY <2>2 DEF e, pending
<1> QED BY <1>2, <1>7, <1>8, <1>9, <1>10 DEF EntryHolds, e

\* add_file and update_file: the path has as many versions as publications,
\* and the next one's chunks are all there.
LEMMA PublishOK ==
  ASSUME Inductive, NEW t \in Threads, Publish(t)
  PROVE  Inductive'
<1> DEFINE c == call[t]
           e == [c EXCEPT !.pc = "bundle"]
           entry == EntryOf(c)
           pub == Publication(c)
<1>1. /\ c.pc = "publish"
      /\ \/ /\ Admits(c.path, c.expected) /\ files' = [files EXCEPT ![c.path] = entry]
            /\ log' = [log EXCEPT ![c.path] = Append(@, pub)] /\ Becomes(t, e)
         \/ Becomes(t, Failed) /\ UNCHANGED <<files, log>>
      /\ UNCHANGED <<stores, root, holographic, calls>>
  BY DEF Publish
<1>2. c \in WriteCall /\ WriterOK(c, holographic, store, corr, log)
  BY <1>1, WriterHas DEF WritePCs
<1>3. nextId \in Nat \ {0} /\ Typed /\ FilesHold
  BY DEF Inductive, Typed
<1> HIDE DEF c
<1>4. CASE Becomes(t, Failed) /\ UNCHANGED <<files, log>>
  <2>1. nextId' \in Nat \ {0} /\ nextId <= nextId'
    BY <1>1, <1>3 DEF stores
  <2> QED BY <1>1, <1>4, <2>1, EndedOK, QuietStep DEF stores
<1>5. CASE /\ Admits(c.path, c.expected) /\ files' = [files EXCEPT ![c.path] = entry]
           /\ log' = [log EXCEPT ![c.path] = Append(@, pub)] /\ Becomes(t, e)
  <2> DEFINE p == c.path
             n == Len(log[p])
  <2>1. /\ p \in Paths /\ c.expected \in Nat \cup {None} /\ c.ids \in Seq(Nat) /\ c.data \in Contents
        /\ c.zip \in BOOLEAN /\ Len(c.data) \in Nat
    <3>1. /\ p \in Paths /\ c.expected \in Nat \cup {None} /\ c.ids \in Seq(Nat) /\ c.data \in Contents
          /\ c.zip \in BOOLEAN
      BY <1>2 DEF WriteCall
    <3>2. c.data \in Seq(Bytes)
      BY <3>1, ContentsAssumption
    <3> QED BY <3>1, <3>2, LenProperties
  <2>2. entry \in Entry /\ pub \in Publications
    BY <2>1, NoneAssumption DEF EntryOf, Entry, Publication, Publications, FormatOf, Format
  <2>3. entry.version = VersionOf(c) /\ ~entry.deleted
    BY DEF EntryOf, VersionOf
  <2>4. pub = [content |-> c.data, chunks |-> c.ids, deleted |-> FALSE] /\ pub.content = c.data
    BY DEF Publication
  <2>5. EntryHolds(entry, pub.content, store, corr)
    <3>1. /\ Len(c.ids) = Len(c.pending) /\ Join(Plain(c.zip, c.pending)) = c.data
          /\ InStore(c.ids, c.pending, EncodingIn(holographic, c), store)
          /\ InCorr(c.ids, c.pending, corr) /\ Sealed(c) /\ c.pc # "begin"
      BY <1>1, <1>2 DEF WriterOK
    <3>2. EntryHolds(EntryOf(c), c.data, store, corr)
      BY <1>2, <3>1, WholeEntry
    <3> QED BY <2>4, <3>2
  <2> HIDE DEF entry, pub, p
  <2>6. n \in Nat /\ VersionOf(c) = n
    <3>1. n \in Nat
      BY <1>3, <2>1, LenProperties DEF Typed
    <3>2. CASE files[p] = None
      <4>1. log[p] = <<>> /\ c.expected = None
        BY <1>3, <1>5, <2>1, <3>2 DEF FilesHold, Admits, p
      <4> QED BY <3>1, <4>1, EmptySeq DEF VersionOf
    <3>3. CASE files[p] # None
      <4>1. n = files[p].version + 1 /\ files[p].version = c.expected
        BY <1>3, <1>5, <2>1, <3>3 DEF FilesHold, Admits, p
      <4>2. c.expected # None
        <5>1. files[p] \in Entry
          BY <1>3, <2>1, <3>3 DEF Typed
        <5>2. files[p].version \in Nat
          BY <5>1 DEF Entry
        <5> QED BY <4>1, <5>2, NoneAssumption
      <4> QED BY <3>1, <4>1, <4>2 DEF VersionOf
    <3> QED BY <3>1, <3>2, <3>3
  <2>7. InLog(p, VersionOf(c), c.data, c.ids, log')
    <3>1. Len(log'[p]) = n + 1 /\ log'[p][n + 1] = pub
      BY <1>3, <1>5, <2>1, <2>2, LogAppended DEF p
    <3>2. n + 1 \in 1..(n + 1)
      BY <2>6
    <3> QED BY <2>4, <2>6, <3>1, <3>2 DEF InLog
  <2>8. /\ e \in WriteCall /\ e.pc = "bundle" /\ e.ids = c.ids /\ e.pending = c.pending
        /\ e.kind = c.kind /\ e.zip = c.zip /\ e.data = c.data /\ e.path = p
        /\ e.expected = c.expected
    BY <1>2 DEF WriteCall, WritePCs, p
  <2> HIDE DEF e
  <2>9. WriterOK(e, holographic, store, corr, log')
    <3>1. Sealed(e)
      BY <1>1, <1>2, <2>8 DEF WriterOK, Sealed
    <3> QED BY <1>1, <1>2, <2>7, <2>8, <3>1 DEF WriterOK, EncodingIn, VersionOf
  <2>10. e.pc \in PCs /\ Owned(e) = {} /\ CallOK(e, holographic, store, corr, log', root)
    BY <2>8, <2>9 DEF CallOK, PCs, Owned
  <2>11. entry.version = Len(log[p])
    BY <2>3, <2>6
  <2>12. files' = [files EXCEPT ![p] = entry] /\ log' = [log EXCEPT ![p] = Append(@, pub)] /\ Becomes(t, e)
    BY <1>5 DEF p
  <2> QED BY <1>1, <2>1, <2>2, <2>5, <2>10, <2>11, <2>12, ManifestStep
<1> QED BY <1>1, <1>4, <1>5

\* The root gains the chunks, which are all in the store, and the writer gets
\* its version.
LEMMA BundleOK ==
  ASSUME Inductive, NEW t \in Threads, Bundle(t)
  PROVE  Inductive'
<1> DEFINE c == call[t]
           v == VersionOf(c)
           l == IF c.kind = "large" THEN Len(Levels(Len(c.ids))) ELSE 0
           e == [pc |-> "ok", path |-> c.path, data |-> c.data, ids |-> c.ids,
                 version |-> v, levels |-> l]
<1>1. /\ c.pc = "bundle" /\ root' = root \cup (ToSet(c.ids) \cap DOMAIN store)
      /\ UNCHANGED <<files, stores, holographic, calls, log>>
  BY DEF Bundle
<1>2. Becomes(t, e)
  <2>1. EntryOf(c).version = v
    BY DEF EntryOf, VersionOf
  <2> QED BY <2>1 DEF Bundle
<1>3. c \in WriteCall /\ WriterOK(c, holographic, store, corr, log)
      /\ DOMAIN c.ids = 1..Len(c.ids)
  BY <1>1, WriterHas DEF WritePCs
<1> HIDE DEF c, l
<1>4. c.path \in Paths /\ v \in Nat
  BY <1>3, NoneAssumption DEF WriteCall, VersionOf
<1>5. ToSet(c.ids) \subseteq DOMAIN store
  <2>1. InStore(c.ids, c.pending, EncodingIn(holographic, c), store)
    BY <1>1, <1>3 DEF WriterOK
  <2>2. \A i \in 1..Len(c.ids) : c.ids[i] \in DOMAIN store
    BY <2>1 DEF InStore
  <2> QED BY <1>3, <2>2 DEF ToSet
<1>6. InLog(c.path, v, c.data, c.ids, log)
  BY <1>1, <1>3 DEF WriterOK
<1>7. /\ e.pc = "ok" /\ e.path = c.path /\ e.version = v /\ e.data = c.data /\ e.ids = c.ids
      /\ "entry" \notin DOMAIN e
  OBVIOUS
<1> HIDE DEF e, v
<1>8. Typed /\ Fresh /\ CallsOK /\ FilesHold
  BY DEF Inductive
<1>9. call' = [u \in Threads |-> call'[u]] /\ call'[t] = e /\ \A u \in Threads : u # t => call'[u] = call[u]
  BY <1>2, <1>8, CallMoves
<1>10. /\ store' = store /\ corr' = corr /\ nextId' = nextId /\ holographic' = holographic
       /\ storeVersion' = storeVersion /\ corrVersion' = corrVersion /\ log' = log /\ files' = files
  BY <1>1 DEF stores
<1>11. /\ Keeps(store, store') /\ Keeps(corr, corr') /\ root \subseteq root' /\ Longer(log, log')
       /\ ToSet(c.ids) \subseteq root'
  BY <1>1, <1>5, <1>8, <1>10, SameLog DEF Keeps
<1>12. Typed'
  <2>1. \A u \in Threads : call'[u].pc \in PCs
    BY <1>7, <1>8, <1>9 DEF Typed, PCs
  <2>2. DOMAIN store \cup DOMAIN corr \cup root' \subseteq 1..(nextId - 1)
    BY <1>1, <1>8 DEF Typed
  <2> QED BY <1>8, <1>9, <1>10, <2>1, <2>2 DEF Typed
<1>13. Fresh'
  <2>1. Owned(e) = {}
    BY <1>7 DEF Owned
  <2>2. nextId' \in Nat /\ nextId <= nextId'
    BY <1>8, <1>10 DEF Typed
  <2> QED BY <1>2, <1>8, <1>10, <2>1, <2>2, FreshStep
<1>14. CallsOK'
  <2>1. AnswerOK(e, log', root')
    BY <1>4, <1>6, <1>7, <1>10, <1>11 DEF AnswerOK
  <2>2. CallOK(e, holographic', store', corr', log', root')
    BY <1>7, <2>1 DEF CallOK, WritePCs
  <2> QED BY <1>2, <1>8, <1>10, <1>11, <2>2, CallsStep
<1>15. FilesHold'
  BY <1>8, <1>10, <1>11, FilesKept
<1> QED BY <1>12, <1>13, <1>14, <1>15 DEF Inductive

\* delete_file
LEMMA DeleteOK ==
  ASSUME Inductive, NEW t \in Threads, NEW p \in Paths, NEW v, Delete(t, p, v)
  PROVE  Inductive'
<1> DEFINE e == [files[p] EXCEPT !.deleted = TRUE, !.version = v + 1]
           pub == [Last(log[p]) EXCEPT !.deleted = TRUE]
<1>1. Becomes(t, Idle) /\ UNCHANGED <<stores, root, holographic>>
  BY DEF Delete
<1>2. Typed /\ FilesHold /\ nextId \in Nat \ {0}
  BY DEF Inductive, Typed
<1>3. \/ UNCHANGED <<files, log>>
      \/ /\ files[p] # None /\ files[p].version = v
         /\ files' = [files EXCEPT ![p].deleted = TRUE, ![p].version = v + 1]
         /\ log' = [log EXCEPT ![p] = Append(@, pub)]
  BY DEF Delete
<1>4. CASE UNCHANGED <<files, log>>
  <2>1. nextId' \in Nat \ {0} /\ nextId <= nextId'
    BY <1>1, <1>2 DEF stores
  <2> QED BY <1>1, <1>4, <2>1, EndedOK, QuietStep DEF stores
<1>5. CASE /\ files[p] # None /\ files[p].version = v
           /\ files' = [files EXCEPT ![p].deleted = TRUE, ![p].version = v + 1]
           /\ log' = [log EXCEPT ![p] = Append(@, pub)]
  <2>1. files[p] \in Entry
    BY <1>2, <1>5 DEF Typed
  <2>2. e \in Entry /\ e.version = v + 1 /\ e.deleted /\ v \in Nat
    <3> DEFINE f == files[p]
    <3>1. f \in Entry /\ f.version = v
      BY <1>5, <2>1
    <3> HIDE DEF f
    <3>2. v \in Nat
      BY <3>1 DEF Entry
    <3> DEFINE w == v + 1
               x == [f EXCEPT !.deleted = TRUE, !.version = w]
    <3>3. w \in Nat
      BY <3>2
    <3> HIDE DEF w
    <3>4. x \in Entry
      BY <3>1, <3>3 DEF Entry
    <3>5. x.version = w /\ x.deleted = TRUE
      BY <3>1 DEF Entry
    <3>6. x = e
      BY DEF f, w
    <3> HIDE DEF x, e
    <3> QED BY <3>2, <3>4, <3>5, <3>6 DEF w
  <2>3. files' = [files EXCEPT ![p] = e]
    <3>1. [files EXCEPT ![p].deleted = TRUE, ![p].version = v + 1] = [files EXCEPT ![p] = e]
      BY <1>2 DEF Typed
    <3> QED BY <1>5, <3>1
  <2>4. Len(log[p]) = v + 1 /\ log[p] \in Seq(Publications)
    BY <1>2, <1>5 DEF FilesHold, Typed
  <2>5. pub \in Publications
    <3>1. v + 1 \in 1..Len(log[p])
      BY <2>2, <2>4
    <3>2. Last(log[p]) \in Publications
      BY <2>4, <3>1, ElementOfSeq DEF Last
    <3> QED BY <3>2 DEF Publications
  <2> HIDE DEF e, pub
  <2>6. /\ Becomes(t, Idle) /\ UNCHANGED <<stores, root, holographic>>
        /\ CallOK(Idle, holographic, store, corr, log', root)
    BY <1>1, <1>2 DEF CallOK, Idle, WritePCs
  <2>7. e.version = Len(log[p]) /\ (~e.deleted => EntryHolds(e, pub.content, store, corr))
    BY <2>2, <2>4
  <2> QED BY <1>2, <1>5, <2>2, <2>3, <2>5, <2>6, <2>7, EndedOK, ManifestStep
<1> QED BY <1>3, <1>4, <1>5
-----------------------------------------------------------------------------
(* Readers and decoders *)

\* What a vector decodes to, of at least its bytes: the bytes, once corrected,
\* and perhaps more.
Output == Bytes \cup {Envelope, Junk}

Padded(x, b, pad, n) == pad \in Seq(Output) /\ x = b \o pad /\ (n = Len(b) => pad = <<>>)

LEMMA CorrectedBegins ==
  ASSUME NEW id, id \in DOMAIN corr, NEW format, store[id].format = format,
         store[id].bytes \in Chunk, corr[id] = store[id].bytes, NEW n \in Nat, Size(id) <= n
  PROVE  \E pad : Padded(Corrected(id, Decode(store[id], format, n)), store[id].bytes, pad, n)
<1> DEFINE b == store[id].bytes
           m == Len(b)
           data == Decode(store[id], format, n)
           wrong == {i \in DOMAIN b : b[i] \notin Exact}
           x == [i \in DOMAIN data |->
                   IF i \in wrong THEN IF data[i] = Near THEN b[i] ELSE Junk ELSE data[i]]
<1>1. b \in Seq(Output) /\ m \in Nat /\ m <= n /\ DOMAIN b = 1..m
  <2>1. Bytes \cup {Envelope} \subseteq Output
    BY DEF Output
  <2>2. b \in Seq(Output)
    BY <2>1, SeqMonotonic DEF Chunk
  <2> QED BY <2>2, LenProperties DEF Size
<1>2. /\ DOMAIN data = 1..n
      /\ \A i \in 1..n : data[i] = IF i > m THEN Junk ELSE IF b[i] \in Exact THEN b[i] ELSE Near
  BY DEF Decode
<1>3. Corrected(id, data) = Patch(b, data)
  BY DEF Corrected
<1>4. Patch(b, data) = b \/ Patch(b, data) = x
  BY DEF Patch
<1>5. x = [i \in 1..n |-> x[i]] /\ \A i \in 1..n : x[i] = IF i <= m THEN b[i] ELSE Junk
  BY <1>1, <1>2
<1> HIDE DEF b, m, data, x
<1>6. CASE Patch(b, data) = b
  <2>1. <<>> \in Seq(Output) /\ b = b \o <<>>
    BY <1>1, EmptySeq, ConcatEmptySeq
  <2>2. Padded(Corrected(id, data), b, <<>>, n)
    BY <1>3, <1>6, <2>1 DEF Padded
  <2> QED BY <2>2 DEF b, data
<1>7. CASE Patch(b, data) = x
  <2> DEFINE k == n - m
             pad == [i \in 1..k |-> Junk]
  <2>1. k \in Nat /\ m + k = n
    BY <1>1
  <2> HIDE DEF k
  <2>2. pad \in [1..k -> Output] /\ \A i \in 1..k : pad[i] = Junk
    BY DEF Output
  <2> HIDE DEF pad
  <2>3. pad \in Seq(Output) /\ Len(pad) = k
    BY <2>1, <2>2, SeqOfFunction
  <2>4. Concatenates(Output, b, pad, m, k)
    <3>1. Len(b) = m
      BY DEF m
    <3> QED BY <1>1, <2>3, <3>1, ConcatAt
  <2>5. \A i \in 1..n : x[i] = (b \o pad)[i]
    <3>1. \A i \in 1..n : (b \o pad)[i] = IF i <= m THEN b[i] ELSE pad[i - m]
      BY <2>1, <2>4 DEF Concatenates
    <3>2. \A i \in 1..n : ~ (i <= m) => pad[i - m] = Junk
      <4>1. \A i \in 1..n : ~ (i <= m) => i - m \in 1..k
        BY <1>1, <2>1
      <4> QED BY <2>2, <4>1
    <3> QED BY <1>5, <3>1, <3>2
  <2>6. x = b \o pad
    <3>1. b \o pad \in Seq(Output) /\ Len(b \o pad) = n
      BY <2>1, <2>4 DEF Concatenates
    <3> DEFINE y == b \o pad
    <3>2. y \in Seq(Output) /\ Len(y) = n /\ \A i \in 1..n : x[i] = y[i]
      BY <2>5, <3>1
    <3> HIDE DEF y
    <3>3. y = [i \in 1..n |-> y[i]]
      BY <3>2
    <3>4. [i \in 1..n |-> x[i]] = [i \in 1..n |-> y[i]]
      BY <3>2
    <3> QED BY <1>5, <3>3, <3>4 DEF y
  <2>7. n = Len(b) => pad = <<>>
    <3>1. n = Len(b) => k = 0
      BY <1>1, <2>1 DEF m
    <3> QED BY <2>3, <3>1, EmptySeq
  <2>8. Padded(Corrected(id, data), b, pad, n)
    BY <1>3, <1>7, <2>3, <2>6, <2>7 DEF Padded
  <2> QED BY <2>8 DEF b, data
<1> QED BY <1>4, <1>6, <1>7

\* Decoding what an id's vector holds and correcting it gives its bytes.
LEMMA CorrectedIsExact ==
  ASSUME NEW id, id \in DOMAIN corr, NEW format, store[id].format = format,
         store[id].bytes \in Chunk, corr[id] = store[id].bytes
  PROVE  Corrected(id, Decode(store[id], format, Size(id))) = store[id].bytes
<1> DEFINE b == store[id].bytes
           n == Size(id)
           x == Corrected(id, Decode(store[id], format, n))
<1>1. n \in Nat /\ n <= n /\ n = Len(b) /\ b \in Seq(Bytes \cup {Envelope})
  BY LenProperties DEF Size, Chunk
<1>2. PICK pad : Padded(x, b, pad, n)
  <2> HIDE DEF n
  <2>1. Size(id) <= n
    BY <1>1 DEF n
  <2> QED BY <1>1, <2>1, CorrectedBegins
<1> HIDE DEF b, n, x
<1>3. x = b \o <<>>
  BY <1>1, <1>2 DEF Padded
<1>4. b \o <<>> = b
  BY <1>1, ConcatEmptySeq
<1> QED BY <1>3, <1>4 DEF b, n, x

\* The chunks of an entry.
ChunksOf(e, cs, n) ==
  /\ cs \in Seq(Chunk) /\ Len(cs) = n /\ n \in Nat /\ DOMAIN e.chunks = 1..n /\ Len(e.chunks) = n
  /\ \A i \in 1..n :
       /\ cs[i] \in Chunk /\ store[e.chunks[i]].bytes = cs[i] /\ Size(e.chunks[i]) = Len(cs[i])
       /\ e.chunks[i] \in DOMAIN store /\ e.chunks[i] \in DOMAIN corr
       /\ store[e.chunks[i]].format = e.format /\ corr[e.chunks[i]] = cs[i]

LEMMA EntryChunks ==
  ASSUME NEW e \in Entry, ChunksHeld(e, store, corr)
  PROVE  ChunksOf(e, BytesOf(e, store), Len(e.chunks))
<1> DEFINE n == Len(e.chunks)
           cs == BytesOf(e, store)
<1>1. n \in Nat /\ DOMAIN e.chunks = 1..n
  BY LenProperties DEF Entry
<1>2. cs = [i \in 1..n |-> store[e.chunks[i]].bytes]
  BY <1>1 DEF BytesOf
<1>3. \A i \in 1..n :
        /\ store[e.chunks[i]].bytes \in Chunk
        /\ e.chunks[i] \in DOMAIN store /\ e.chunks[i] \in DOMAIN corr
        /\ store[e.chunks[i]].format = e.format /\ corr[e.chunks[i]] = store[e.chunks[i]].bytes
  BY <1>1 DEF ChunksHeld
<1> HIDE DEF n, cs
<1>4. cs \in [1..n -> Chunk] /\ \A i \in 1..n : cs[i] = store[e.chunks[i]].bytes
  BY <1>2, <1>3
<1>5. cs \in Seq(Chunk) /\ Len(cs) = n
  BY <1>1, <1>4, SeqOfFunction
<1>6. \A i \in 1..n : Size(e.chunks[i]) = Len(cs[i])
  BY <1>4 DEF Size
<1>7. ChunksOf(e, cs, n)
  BY <1>1, <1>3, <1>4, <1>5, <1>6 DEF ChunksOf, n
<1> QED BY <1>7 DEF cs, n

\* The chunks of an uncompressed file are what it was published as.
LEMMA EntryContent ==
  ASSUME NEW e \in Entry, NEW content, EntryHolds(e, content, store, corr), ~e.zip
  PROVE  Join(BytesOf(e, store)) = content /\ e.size = Len(content)
<1>1. BytesOf(e, store) \in Seq(Chunk)
  <2>1. ChunksOf(e, BytesOf(e, store), Len(e.chunks))
    BY EntryChunks DEF EntryHolds
  <2> QED BY <2>1 DEF ChunksOf
<1>2. Plain(e.zip, BytesOf(e, store)) = BytesOf(e, store)
  <2>1. e.zip = FALSE
    BY DEF Entry
  <2> QED BY <1>1, <2>1, PlainAlone
<1>3. e.size = Len(content)
  BY DEF EntryHolds, Measured
<1> QED BY <1>2, <1>3 DEF EntryHolds

\* read_file gives the chunks of the default size, the last of which it may
\* decode too much of, without the rest.
LEMMA ReadFileExact ==
  ASSUME NEW e \in Entry, NEW content, EntryHolds(e, content, store, corr),
         Suits("read_file", e, BytesOf(e, store))
  PROVE  ReadFile(e) = content
<1> DEFINE cs == BytesOf(e, store)
           n == Len(e.chunks)
           x(i) == Corrected(e.chunks[i], Decode(store[e.chunks[i]], e.format, DefaultSize))
           ps == [i \in DOMAIN e.chunks |-> x(i)]
           all == Join(ps)
           joined == Join(cs)
           data == Slice(all, 0, e.size)
<1>1. ReadFile(e) = IF e.zip THEN Unwrap(data) ELSE data
  BY DEF ReadFile
<1>2. ChunksOf(e, cs, n)
  BY EntryChunks DEF EntryHolds
<1>3. Even(cs, DefaultSize) /\ e.size = Len(joined)
  BY DEF Suits
<1>4. IF e.zip THEN Unwrap(joined) = content ELSE joined = content
  <2>1. CASE e.zip
    BY <1>3, <2>1 DEF EntryHolds, Measured
  <2>2. CASE ~e.zip
    BY <2>2, EntryContent
  <2> QED BY <2>1, <2>2
<1> HIDE DEF cs, n
<1>5. /\ cs \in Seq(Chunk) /\ Len(cs) = n /\ n \in Nat /\ DOMAIN e.chunks = 1..n
      /\ DefaultSize \in Nat
  BY <1>2, SizesAssumption DEF ChunksOf
<1>6. \A i \in 1..n : IF i < n THEN Len(cs[i]) = DefaultSize ELSE Len(cs[i]) <= DefaultSize
  <2>1. DOMAIN cs = 1..n
    BY <1>5, LenProperties
  <2> QED BY <1>3, <1>5, <2>1 DEF Even
<1>7. ps = [i \in 1..n |-> x(i)]
  BY <1>5
<1>8. ASSUME NEW i \in 1..n
      PROVE  /\ \E pad : Padded(x(i), cs[i], pad, DefaultSize)
             /\ i < n => x(i) = cs[i]
             /\ x(i) \in Seq(Output) /\ cs[i] \in Seq(Output)
  <2> DEFINE id == e.chunks[i]
             b == cs[i]
  <2>1. /\ b \in Chunk /\ store[id].bytes = b /\ Size(id) = Len(b)
        /\ id \in DOMAIN corr /\ store[id].format = e.format /\ corr[id] = b
    BY <1>2 DEF ChunksOf
  <2>2. Size(id) <= DefaultSize /\ (i < n => Len(b) = DefaultSize)
    BY <1>5, <1>6, <2>1
  <2>3. PICK pad : Padded(x(i), b, pad, DefaultSize)
    <3> HIDE DEF b
    <3> DEFINE y == id
               f == e.format
    <3>1. /\ y \in DOMAIN corr /\ store[y].format = f /\ store[y].bytes \in Chunk
          /\ corr[y] = store[y].bytes /\ Size(y) <= DefaultSize
      BY <2>1, <2>2
    <3> HIDE DEF y, f
    <3>2. \E pad : Padded(Corrected(y, Decode(store[y], f, DefaultSize)), store[y].bytes, pad, DefaultSize)
      BY <1>5, <3>1, CorrectedBegins
    <3> QED BY <2>1, <3>2 DEF y, f
  <2> HIDE DEF x, id
  <2>4. b \in Seq(Output)
    <3>1. Bytes \cup {Envelope} \subseteq Output
      BY DEF Output
    <3> QED BY <2>1, <3>1, SeqMonotonic DEF Chunk
  <2> HIDE DEF b
  <2>5. x(i) = b \o pad /\ pad \in Seq(Output) /\ (i < n => pad = <<>>)
    BY <2>2, <2>3 DEF Padded
  <2>6. x(i) \in Seq(Output) /\ (i < n => x(i) = b)
    BY <2>4, <2>5, ConcatProperties, ConcatEmptySeq
  <2> QED BY <2>3, <2>4, <2>6 DEF b
<1> HIDE DEF x, ps, joined, all
<1>9. cs \in Seq(Seq(Output)) /\ ps \in Seq(Seq(Output)) /\ Len(ps) = n
      /\ \A i \in 1..n : ps[i] = x(i)
  <2> DEFINE T == Seq(Output)
  <2>1. cs = [i \in 1..n |-> cs[i]]
    BY <1>5
  <2>2. \A i \in 1..n : x(i) \in T /\ cs[i] \in T
    BY <1>8
  <2> HIDE DEF T
  <2>3. cs \in [1..n -> T] /\ ps \in [1..n -> T]
    BY <1>7, <2>1, <2>2
  <2>4. cs \in Seq(T) /\ ps \in Seq(T) /\ Len(ps) = n
    BY <1>5, <2>3, SeqOfFunction
  <2>5. \A i \in 1..n : ps[i] = x(i)
    BY <1>7
  <2> QED BY <2>4, <2>5 DEF T
<1>10. joined \in Seq(Output) /\ \E pad \in Seq(Output) : all = joined \o pad
  <2>1. joined \in Seq(Output)
    BY <1>9, JoinConcat DEF joined
  <2>2. CASE n = 0
    <3>1. ps = <<>> /\ cs = <<>>
      BY <1>5, <1>9, <2>2, EmptySeq
    <3>2. all = joined
      BY <3>1 DEF all, joined
    <3>3. all = joined \o <<>> /\ <<>> \in Seq(Output)
      BY <2>1, <3>2, EmptySeq, ConcatEmptySeq
    <3> QED BY <2>1, <3>3
  <2>3. CASE n # 0
    <3>1. n \in 1..n
      BY <1>5, <2>3
    <3>2. PICK pad : Padded(x(n), cs[n], pad, DefaultSize)
      BY <1>8, <3>1
    <3>3. pad \in Seq(Output) /\ ps[n] = cs[n] \o pad
      BY <1>9, <3>1, <3>2 DEF Padded
    <3>4. \A i \in 1..n : i < n => ps[i] = cs[i]
      BY <1>8, <1>9
    <3>5. all = joined \o pad
      <4>1. /\ cs \in Seq(Seq(Output)) /\ ps \in Seq(Seq(Output)) /\ Len(cs) = n /\ Len(ps) = n
            /\ n # 0 /\ pad \in Seq(Output) /\ ps[n] = cs[n] \o pad
        BY <1>5, <1>9, <2>3, <3>3
      <4>2. Join(ps) = Join(cs) \o pad
        BY <3>4, <4>1, JoinPadded
      <4> QED BY <4>2 DEF all, joined
    <3> QED BY <2>1, <3>3, <3>5
  <2> QED BY <2>2, <2>3
<1>11. data = joined
  <2>1. PICK pad \in Seq(Output) : all = joined \o pad
    BY <1>10
  <2> DEFINE l == Len(joined)
  <2>2. l \in Nat /\ l <= Len(all) /\ Len(all) \in Nat
    <3>1. joined \in Seq(Output)
      BY <1>10
    <3>2. Len(all) = Len(joined) + Len(pad)
      BY <2>1, <3>1, ConcatProperties
    <3>3. Len(joined) \in Nat /\ Len(pad) \in Nat
      BY <3>1, LenProperties
    <3> DEFINE k == Len(pad)
               m == Len(all)
    <3>4. l \in Nat /\ k \in Nat /\ m = l + k
      BY <3>2, <3>3
    <3> HIDE DEF l, k, m
    <3>5. l <= m /\ m \in Nat
      BY <3>4
    <3> QED BY <3>4, <3>5 DEF m
  <2>3. data = SubSeq(all, 1, l)
    <3>1. MinOf(0 + e.size, Len(all)) = l /\ 0 + 1 = 1
      BY <1>3, <2>2 DEF MinOf
    <3> QED BY <3>1 DEF Slice
  <2>4. SubSeq(joined \o pad, 1, l) = joined
    <3>1. joined \in Seq(Output)
      BY <1>10
    <3>2. CASE l = 0
      <4>1. joined = <<>>
        BY <3>1, <3>2, EmptySeq
      <4>2. SubSeq(joined \o pad, 1, 0) = <<>>
        BY SubSeqEmpty
      <4> QED BY <3>2, <4>1, <4>2
    <3>3. CASE l # 0
      <4>1. 1 \in 1..Len(joined) /\ l \in 1..Len(joined)
        BY <2>2, <3>3
      <4>2. SubSeq(joined \o pad, 1, l) = SubSeq(joined, 1, l)
        BY <3>1, <4>1, SubSeqOfConcat1
      <4> QED BY <3>1, <4>2, SubSeqFull
    <3> QED BY <3>2, <3>3
  <2> QED BY <2>1, <2>3, <2>4
<1> QED BY <1>1, <1>4, <1>11

\* All of a sequence.
LEMMA SliceAll == ASSUME NEW S, NEW d \in Seq(S) PROVE Slice(d, 0, Len(d)) = d
<1> DEFINE l == Len(d)
<1>1. l \in Nat
  BY LenProperties
<1>2. MinOf(0 + l, l) = l /\ 0 + 1 = 1
  BY <1>1 DEF MinOf
<1>3. Slice(d, 0, l) = SubSeq(d, 1, l)
  BY <1>2 DEF Slice
<1> QED BY <1>3, SubSeqFull

\* What is asked of a range is cut at the end of the file before or after.
LEMMA SliceWithin ==
  ASSUME NEW S, NEW d \in Seq(S), NEW from \in Nat, NEW m \in Nat
  PROVE  Slice(d, from, m) = IF from >= Len(d) THEN <<>>
                             ELSE Slice(d, from, MinOf(m, Len(d) - from))
<1> DEFINE l == Len(d)
<1>1. l \in Nat
  BY LenProperties
<1>2. Slice(d, from, m) = SubSeq(d, from + 1, MinOf(from + m, l))
  BY DEF Slice
<1>3. Slice(d, from, MinOf(m, l - from)) = SubSeq(d, from + 1, MinOf(from + MinOf(m, l - from), l))
  BY DEF Slice
<1> HIDE DEF l
<1>4. CASE from >= l
  <2> DEFINE k == MinOf(from + m, l)
             j == from + 1
  <2>1. k \in Int /\ j \in Int /\ k < j
    BY <1>1, <1>4 DEF MinOf
  <2> HIDE DEF k, j
  <2>2. SubSeq(d, j, k) = <<>>
    BY <2>1, SubSeqEmpty
  <2> QED BY <1>2, <1>4, <2>2 DEF j, k, l
<1>5. CASE ~ (from >= l)
  <2>1. MinOf(from + MinOf(m, l - from), l) = MinOf(from + m, l)
    BY <1>1, <1>5 DEF MinOf
  <2> QED BY <1>2, <1>3, <1>5, <2>1 DEF l
<1> QED BY <1>4, <1>5

\* The chunks, decoded at their own size.
LEMMA ChunksDecoded ==
  ASSUME NEW e \in Entry, ChunksHeld(e, store, corr)
  PROVE  [i \in DOMAIN e.chunks |->
            Corrected(e.chunks[i], Decode(store[e.chunks[i]], e.format, Size(e.chunks[i])))]
         = BytesOf(e, store)
<1> DEFINE x(i) == Corrected(e.chunks[i], Decode(store[e.chunks[i]], e.format, Size(e.chunks[i])))
<1>1. ASSUME NEW i \in DOMAIN e.chunks PROVE x(i) = store[e.chunks[i]].bytes
  <2> DEFINE id == e.chunks[i]
             f == e.format
  <2>1. id \in DOMAIN corr /\ store[id].format = f /\ store[id].bytes \in Chunk /\ corr[id] = store[id].bytes
    BY DEF ChunksHeld
  <2> HIDE DEF id, f
  <2>2. Corrected(id, Decode(store[id], f, Size(id))) = store[id].bytes
    BY <2>1, CorrectedIsExact
  <2> QED BY <2>2 DEF id, f
<1> HIDE DEF x
<1>2. [i \in DOMAIN e.chunks |-> x(i)] = [i \in DOMAIN e.chunks |-> store[e.chunks[i]].bytes]
  BY <1>1
<1> QED BY <1>2 DEF BytesOf, x

\* The content of an entry is a sequence.
LEMMA ContentType ==
  ASSUME NEW e \in Entry, NEW content, EntryHolds(e, content, store, corr), ~e.zip
  PROVE  content \in Seq(Bytes \cup {Envelope})
<1>1. BytesOf(e, store) \in Seq(Chunk)
  <2>1. ChunksOf(e, BytesOf(e, store), Len(e.chunks))
    BY EntryChunks DEF EntryHolds
  <2> QED BY <2>1 DEF ChunksOf
<1>2. Join(BytesOf(e, store)) \in Seq(Bytes \cup {Envelope})
  BY <1>1, JoinConcat DEF Chunk
<1> QED BY <1>2, EntryContent

\* read_range gives the range of what was published, for every chunk size.
LEMMA ReadRangeExact ==
  ASSUME NEW e \in Entry, NEW content, EntryHolds(e, content, store, corr),
         Suits("read_range", e, BytesOf(e, store)), NEW from \in Nat, NEW m \in Nat
  PROVE  ReadRange(e, from, m) = Slice(content, from, m)
<1> DEFINE ps == [i \in DOMAIN e.chunks |->
                    Corrected(e.chunks[i], Decode(store[e.chunks[i]], 0, Size(e.chunks[i])))]
<1>1. ReadRange(e, from, m) = IF from >= e.size THEN <<>> ELSE Slice(Join(ps), from, MinOf(m, e.size - from))
  BY DEF ReadRange
<1>2. e.format = 0 /\ ~e.zip
  BY DEF Suits
<1>3. ps = BytesOf(e, store)
  <2>1. ps = [i \in DOMAIN e.chunks |->
                Corrected(e.chunks[i], Decode(store[e.chunks[i]], e.format, Size(e.chunks[i])))]
    BY <1>2
  <2> HIDE DEF ps
  <2> QED BY <2>1, ChunksDecoded DEF EntryHolds
<1> HIDE DEF ps
<1>4. Join(ps) = content /\ e.size = Len(content)
  BY <1>2, <1>3, EntryContent
<1>5. content \in Seq(Bytes \cup {Envelope})
  BY <1>2, ContentType
<1>6. ReadRange(e, from, m) = IF from >= Len(content) THEN <<>>
                              ELSE Slice(content, from, MinOf(m, Len(content) - from))
  BY <1>1, <1>4
<1> QED BY <1>5, <1>6, SliceWithin

\* The slot decode_chunked gives chunk i of a file of the given size.
Slot(size, i) == Slice([k \in 1..size |-> k], (i - 1) * ReversibleSize, ReversibleSize)

\* When the chunks have the reversible size, the slots are the chunks' sizes.
LEMMA SlotIsSize ==
  ASSUME NEW S, NEW cs \in Seq(Seq(S)), NEW n, Len(cs) = n, Even(cs, ReversibleSize),
         NEW size, size = Len(Join(cs)), NEW i \in 1..n
  PROVE  Len(Slot(size, i)) = Len(cs[i])
<1> DEFINE u == UpTo(cs)
           R == ReversibleSize
<1>1. Collects(S, cs, u, n)
  BY UpToJoins
<1> HIDE DEF u
<1>2. R \in Nat \ {0} /\ R \in Nat
  BY SizesAssumption
<1>3. n \in Nat /\ i - 1 \in 0..n /\ i \in 0..n /\ i - 1 < n /\ Join(cs) = u[n] /\ i \in Nat
  BY <1>1 DEF Collects
<1>4. (i - 1) * R \in Nat /\ Len(u[i - 1]) = (i - 1) * R
  <2>1. \A j \in 0..n : j < n => j * R \in Nat /\ Len(u[j]) = j * R
    BY <1>1, <1>2, EvenUpTo
  <2> DEFINE j == i - 1
  <2>2. j \in 0..n /\ j < n
    BY <1>3
  <2> HIDE DEF j
  <2>3. j * R \in Nat /\ Len(u[j]) = j * R
    BY <2>1, <2>2
  <2> QED BY <2>3 DEF j
<1>5. Len(u[i - 1]) \in Nat /\ Len(cs[i]) \in Nat /\ Len(u[i]) = Len(u[i - 1]) + Len(cs[i])
  <2>1. Extends(u, cs, i)
    BY <1>1, Extended
  <2> QED BY <2>1 DEF Extends
<1>6. Len(u[i]) \in Nat /\ size \in Nat /\ Len(u[i]) <= size
  <2>1. Begins(u[i], Join(cs))
    BY <1>1, <1>3, UpToGrows
  <2> QED BY <2>1 DEF Begins
<1>7. IF i < n THEN Len(cs[i]) = R ELSE Len(cs[i]) <= R
  <2>1. DOMAIN cs = 1..n
    BY LenProperties
  <2> QED BY <2>1 DEF Even
<1>8. i < n \/ Len(u[i]) = size
  <2>1. i < n \/ i = n
    BY <1>3
  <2> QED BY <1>3, <2>1
<1> DEFINE a == (i - 1) * R
           b == Len(cs[i])
           w == Len(u[i])
           z == [k \in 1..size |-> k]
<1>9. /\ a \in Nat /\ b \in Nat /\ size \in Nat /\ R \in Nat /\ w = a + b /\ w <= size
      /\ IF i < n THEN b = R ELSE b <= R
      /\ i < n \/ w = size
  BY <1>2, <1>4, <1>5, <1>6, <1>7, <1>8
<1>10. z \in Seq(Nat) /\ Len(z) = size
  <2>1. z \in [1..size -> Nat]
    OBVIOUS
  <2> HIDE DEF z
  <2> QED BY <1>6, <2>1, SeqOfFunction
<1> HIDE DEF a, b, w, z, R
<1>11. MinOf(a + R, size) = a + b
  <2>1. IF a + R < size THEN a + R = a + b ELSE size = a + b
    BY <1>9
  <2> QED BY <2>1 DEF MinOf
<1>12. Slot(size, i) = SubSeq(z, a + 1, a + b)
  BY <1>10, <1>11 DEF Slot, Slice, a, z, R
<1>13. Len(SubSeq(z, a + 1, a + b)) = b
  <2>1. a + 1 \in Int /\ a + b \in Int /\ \A k \in (a + 1)..(a + b) : k \in 1..size
    BY <1>6, <1>9
  <2>2. \A k \in (a + 1)..(a + b) : z[k] \in Nat
    BY <1>10, <2>1, ElementOfSeq
  <2> DEFINE f == a + 1
             g == a + b
  <2>3. Len(SubSeq(z, f, g)) = IF f <= g THEN g - f + 1 ELSE 0
    <3> HIDE DEF f, g
    <3>1. f \in Int /\ g \in Int /\ \A k \in f..g : z[k] \in Nat
      BY <2>1, <2>2 DEF f, g
    <3> QED BY <3>1, SubSeqProperties
  <2>4. (IF f <= g THEN g - f + 1 ELSE 0) = b
    BY <1>9
  <2> HIDE DEF f, g
  <2>5. Len(SubSeq(z, f, g)) = b
    BY <2>3, <2>4
  <2> QED BY <2>5 DEF f, g
<1> QED BY <1>12, <1>13 DEF b

\* read_file_holographic gives the chunks that fill their slots.
LEMMA ReadHolographicExact ==
  ASSUME NEW e \in Entry, NEW content, EntryHolds(e, content, store, corr),
         Suits("read_holographic", e, BytesOf(e, store))
  PROVE  ReadHolographic(e) = content
<1> DEFINE cs == BytesOf(e, store)
           n == Len(e.chunks)
           x(i) == Corrected(e.chunks[i], Decode(store[e.chunks[i]], 1, Len(Slot(e.size, i))))
           fixed(i) == Slice(x(i), 0, Len(Slot(e.size, i)))
           ps == [i \in DOMAIN e.chunks |-> fixed(i)]
<1>1. e.format = 1 /\ ~e.zip /\ Even(cs, ReversibleSize)
  BY DEF Suits
<1>2. ReadHolographic(e) = IF e.chunks = <<>> THEN <<>> ELSE Slice(Join(ps), 0, e.size)
  <2> DEFINE slot(i) == Slice([k \in 1..e.size |-> k], (i - 1) * ReversibleSize, ReversibleSize)
             fix(i) == Slice(Corrected(e.chunks[i], Decode(store[e.chunks[i]], 1, Len(slot(i)))), 0, Len(slot(i)))
             list == [i \in DOMAIN e.chunks |-> fix(i)]
  <2>1. list = ps
    BY DEF Slot
  <2>2. ReadHolographic(e) = CASE e.chunks = <<>> -> <<>>
                               [] e.chunks # <<>> /\ e.format = 1 -> Slice(Join(list), 0, e.size)
                               [] OTHER -> Slice(Corrected(e.chunks[1], [i \in 1..e.size |-> Junk]), 0, e.size)
    BY DEF ReadHolographic
  <2> HIDE DEF list, ps
  <2> QED BY <1>1, <2>1, <2>2
<1>3. ChunksOf(e, cs, n)
  BY EntryChunks DEF EntryHolds
<1>4. Join(cs) = content /\ e.size = Len(content)
  BY <1>1, EntryContent
<1>5. content \in Seq(Bytes \cup {Envelope})
  BY <1>1, ContentType
<1> HIDE DEF cs, n
<1>6. cs \in Seq(Chunk) /\ Len(cs) = n /\ n \in Nat /\ DOMAIN e.chunks = 1..n
  BY <1>3 DEF ChunksOf
<1>7. ASSUME NEW i \in 1..n PROVE fixed(i) = cs[i]
  <2> DEFINE l == Len(Slot(e.size, i))
             id == e.chunks[i]
  <2>1. l = Len(cs[i])
    <3>1. cs \in Seq(Seq(Bytes \cup {Envelope})) /\ e.size = Len(Join(cs))
      BY <1>4, <1>6 DEF Chunk
    <3> QED BY <1>1, <1>6, <3>1, SlotIsSize
  <2>2. /\ cs[i] \in Chunk /\ store[id].bytes = cs[i] /\ Size(id) = Len(cs[i])
        /\ id \in DOMAIN corr /\ store[id].format = 1 /\ corr[id] = cs[i]
    BY <1>1, <1>3 DEF ChunksOf
  <2> HIDE DEF l, id
  <2>3. Corrected(id, Decode(store[id], 1, Size(id))) = cs[i]
    BY <2>2, CorrectedIsExact
  <2>4. Corrected(id, Decode(store[id], 1, l)) = cs[i]
    BY <2>1, <2>2, <2>3
  <2>5. Slice(cs[i], 0, l) = cs[i]
    BY <2>1, <2>2, SliceAll DEF Chunk
  <2> QED BY <2>4, <2>5 DEF l, id
<1> HIDE DEF fixed
<1>8. ps = cs
  <2>1. ps = [i \in 1..n |-> fixed(i)] /\ cs = [i \in 1..n |-> cs[i]]
    BY <1>6
  <2>2. [i \in 1..n |-> fixed(i)] = [i \in 1..n |-> cs[i]]
    BY <1>7
  <2> QED BY <2>1, <2>2
<1> HIDE DEF ps
<1>9. CASE e.chunks = <<>>
  <2>1. n = 0
    BY <1>9, EmptySeq DEF n
  <2>2. cs = <<>>
    BY <1>6, <2>1, EmptySeq
  <2>3. Join(cs) = <<>>
    <3> DEFINE T == Bytes \cup {Envelope}
    <3>1. Collects(T, cs, UpTo(cs), 0)
      <4>1. Collects(T, cs, UpTo(cs), Len(cs))
        <5>1. cs \in Seq(Seq(T))
          BY <1>6 DEF Chunk
        <5> HIDE DEF T
        <5> QED BY <5>1, UpToJoins
      <4>2. Len(cs) = 0
        BY <1>6, <2>1
      <4> QED BY <4>1, <4>2
    <3> QED BY <3>1 DEF Collects, Accumulates
  <2> QED BY <1>2, <1>4, <1>9, <2>3
<1>10. CASE e.chunks # <<>>
  <2>1. ReadHolographic(e) = Slice(content, 0, Len(content))
    BY <1>2, <1>4, <1>8, <1>10
  <2> QED BY <1>5, <2>1, SliceAll
<1> QED BY <1>9, <1>10

\* What a reader finds in the manifest.
LEMMA OpenHas ==
  ASSUME Inductive, NEW p \in Paths, Open(p) # None, NEW c, c.path = p, c.entry = Open(p)
  PROVE  ReaderHas(c, store, corr, log)
<1> DEFINE e == files[p]
           l == log[p]
<1>1. e # None /\ ~e.deleted /\ c.entry = e
  BY DEF Open
<1>2. e \in Entry /\ l \in Seq(Publications)
  BY <1>1 DEF Inductive, Typed
<1>3. Len(l) = e.version + 1 /\ EntryHolds(e, Last(l).content, store, corr)
  BY <1>1 DEF Inductive, FilesHold
<1> HIDE DEF e
<1>4. e.version \in Nat
  BY <1>2 DEF Entry
<1>5. e.version + 1 \in 1..Len(l)
  BY <1>3, <1>4
<1>6. Last(l).content = ContentIn(log, p, e)
  BY <1>3 DEF Last, ContentIn
<1> QED BY <1>1, <1>2, <1>3, <1>5, <1>6 DEF ReaderHas

\* read_file, read_range and read_file_holographic change no shared state.
LEMMA StartReadOK ==
  ASSUME Inductive, NEW t \in Threads, NEW kind \in ReadKinds, NEW p \in Paths,
         NEW from \in Nat, NEW n \in Nat, StartRead(t, kind, p, from, n)
  PROVE  Inductive'
<1> DEFINE e == Open(p)
           c == [pc |-> "read", kind |-> kind, path |-> p, entry |-> e, from |-> from, n |-> n]
<1>1. (Becomes(t, Failed) \/ (e # None /\ Becomes(t, c)))
      /\ UNCHANGED <<files, stores, root, holographic, log>>
  BY DEF StartRead
<1>2. ASSUME e # None
      PROVE  c.pc \in PCs /\ Owned(c) = {} /\ CallOK(c, holographic, store, corr, log, root)
  <2>1. c.pc = "read" /\ c.path = p /\ c.entry = e /\ c.kind = kind /\ c.from = from /\ c.n = n
    OBVIOUS
  <2> HIDE DEF c
  <2>2. ReaderHas(c, store, corr, log)
    BY <1>2, <2>1, OpenHas
  <2>3. RequestOK(c)
    BY <2>1 DEF RequestOK
  <2> QED BY <2>1, <2>2, <2>3 DEF PCs, Owned, CallOK, WritePCs
<1>3. nextId' \in Nat \ {0} /\ nextId <= nextId'
  BY <1>1 DEF stores, Inductive, Typed
<1> HIDE DEF c, e
<1> QED BY <1>1, <1>2, <1>3, EndedOK, QuietStep DEF stores

\* Nor do they when they answer.
LEMMA ReadChunksOK ==
  ASSUME Inductive, NEW t \in Threads, ReadChunks(t)
  PROVE  Inductive'
<1> DEFINE c == call[t]
           data == CASE c.kind = "read_file" -> ReadFile(c.entry)
                     [] c.kind = "read_range" -> ReadRange(c.entry, c.from, c.n)
                     [] c.kind = "read_holographic" -> ReadHolographic(c.entry)
           r == [pc |-> "ok", kind |-> c.kind, path |-> c.path, entry |-> c.entry,
                 from |-> c.from, n |-> c.n, data |-> data]
<1>1. /\ c.pc = "read" /\ (Becomes(t, Failed) \/ Becomes(t, r))
      /\ UNCHANGED <<files, stores, root, holographic, log>>
  BY DEF ReadChunks
<1>2. nextId' \in Nat \ {0} /\ nextId <= nextId'
  BY <1>1 DEF stores, Inductive, Typed
<1>3. ReaderHas(c, store, corr, log) /\ RequestOK(c)
  BY <1>1 DEF Inductive, CallsOK, CallOK
<1>4. /\ r.pc = "ok" /\ r.kind = c.kind /\ r.path = c.path /\ r.entry = c.entry /\ r.from = c.from
      /\ r.n = c.n /\ r.data = data /\ "version" \notin DOMAIN r
  BY DEF data
<1> HIDE DEF c, r
<1>5. ReaderHas(r, store, corr, log) /\ RequestOK(r)
  BY <1>3, <1>4 DEF ReaderHas, RequestOK
<1>6. ResultOK(r, store, log)
  <2> DEFINE e == c.entry
             was == ContentIn(log, c.path, c.entry)
  <2>1. e \in Entry /\ EntryHolds(e, was, store, corr)
    BY <1>3 DEF ReaderHas
  <2>2. c.kind \in {"read_file", "read_range", "read_holographic"} /\ c.from \in Nat /\ c.n \in Nat
    BY <1>3 DEF RequestOK, ReadKinds
  <2>3. ASSUME Suits(c.kind, e, BytesOf(e, store))
        PROVE  data = IF c.kind = "read_range" THEN Slice(was, c.from, c.n) ELSE was
    <3> HIDE DEF e, was
    <3>1. CASE c.kind = "read_file"
      <4>1. data = ReadFile(e)
        BY <3>1 DEF e
      <4>2. ReadFile(e) = was
        BY <2>1, <2>3, <3>1, ReadFileExact
      <4> QED BY <3>1, <4>1, <4>2
    <3>2. CASE c.kind = "read_range"
      <4>1. data = ReadRange(e, c.from, c.n)
        BY <3>2 DEF e
      <4>2. ReadRange(e, c.from, c.n) = Slice(was, c.from, c.n)
        BY <2>1, <2>2, <2>3, <3>2, ReadRangeExact
      <4> QED BY <3>2, <4>1, <4>2
    <3>3. CASE c.kind = "read_holographic"
      <4>1. data = ReadHolographic(e)
        BY <3>3 DEF e
      <4>2. ReadHolographic(e) = was
        BY <2>1, <2>3, <3>3, ReadHolographicExact
      <4> QED BY <3>3, <4>1, <4>2
    <3> QED BY <2>2, <3>1, <3>2, <3>3
  <2> HIDE DEF data
  <2> QED BY <1>4, <2>3 DEF ResultOK
<1>7. r.pc \in PCs /\ Owned(r) = {} /\ CallOK(r, holographic, store, corr, log, root)
  BY <1>4, <1>5, <1>6 DEF PCs, Owned, CallOK, WritePCs
<1> QED BY <1>1, <1>2, <1>7, EndedOK, QuietStep DEF stores

\* Where a chunk lies in what the chunks join to.
InPlace(u, seqs, i) ==
  /\ Len(u[i - 1]) \in Nat /\ Len(seqs[i]) \in Nat /\ Len(Join(seqs)) \in Nat
  /\ Len(u[i]) = Len(u[i - 1]) + Len(seqs[i]) /\ Len(u[i]) <= Len(Join(seqs))
  /\ \A k \in 1..Len(seqs[i]) : Join(seqs)[Len(u[i - 1]) + k] = seqs[i][k]

LEMMA ChunkInPlace ==
  ASSUME NEW S, NEW seqs \in Seq(Seq(S)), NEW u, NEW n, Collects(S, seqs, u, n), NEW i \in 1..n
  PROVE  InPlace(u, seqs, i)
<1> DEFINE a == u[i - 1]
           b == seqs[i]
           c == u[i]
           J == Join(seqs)
           l == Len(a)
           m == Len(b)
           w == Len(c)
           z == Len(J)
<1>1. Extends(u, seqs, i)
  BY Extended
<1>2. i \in 0..n
  BY DEF Collects
<1>3. Begins(u[i], J)
  BY <1>2, UpToGrows
<1>4. l \in Nat /\ m \in Nat /\ w = l + m /\ \A k \in 1..m : c[l + k] = b[k]
  BY <1>1 DEF Extends
<1>5. z \in Nat /\ w <= z /\ \A k \in 1..w : J[k] = c[k]
  BY <1>3 DEF Begins
<1> HIDE DEF a, b, c, J, l, m, w, z
<1>6. \A k \in 1..m : l + k \in 1..w
  BY <1>4
<1>7. \A k \in 1..m : J[l + k] = b[k]
  BY <1>4, <1>5, <1>6
<1>8. l \in Nat /\ m \in Nat /\ z \in Nat /\ w = l + m /\ w <= z
  BY <1>4, <1>5
<1> QED BY <1>7, <1>8 DEF InPlace, a, b, c, J, l, m, w, z

\* b follows position t of J.
ComesNext(J, t, b) == t + Len(b) <= Len(J) /\ \A k \in 1..Len(b) : J[t + k] = b[k]

\* A part of a sequence with what follows it.
LEMMA PartGrows ==
  ASSUME NEW S, NEW J \in Seq(S), NEW b \in Seq(S), NEW s \in Nat, NEW t \in Nat, s <= t,
         ComesNext(J, t, b)
  PROVE  SubSeq(J, s + 1, t) \o b = SubSeq(J, s + 1, t + Len(b))
<1> DEFINE l == Len(b)
           z == Len(J)
<1>1. /\ l \in Nat /\ z \in Nat /\ DOMAIN J = 1..z /\ z = Len(J) /\ l = Len(b)
      /\ t + l <= z /\ \A k \in 1..l : J[t + k] = b[k]
  BY LenProperties DEF ComesNext
<1> HIDE DEF l, z
<1> DEFINE f == t + 1
           g == t + l
           c == SubSeq(J, f, g)
<1>2. f \in Int /\ g \in Int /\ \A k \in f..g : k \in 1..z
  BY <1>1
<1>3. \A k \in f..g : J[k] \in S
  BY <1>1, <1>2, ElementOfSeq
<1>4. g - f + 1 = l /\ (IF f <= g THEN g - f + 1 ELSE 0) = l /\ \A k \in 1..l : f + k - 1 = t + k
  BY <1>1
<1>5. c \in Seq(S) /\ Len(c) = l /\ \A k \in 1..l : c[k] = J[t + k]
  <2> HIDE DEF f, g
  <2>1. /\ SubSeq(J, f, g) \in Seq(S)
        /\ Len(SubSeq(J, f, g)) = IF f <= g THEN g - f + 1 ELSE 0
        /\ \A k \in 1..(g - f + 1) : SubSeq(J, f, g)[k] = J[f + k - 1]
    BY <1>2, <1>3, SubSeqProperties
  <2> QED BY <1>4, <2>1
<1> HIDE DEF c
<1>6. c = b
  <2>1. Len(c) = Len(b) /\ \A k \in 1..Len(c) : c[k] = b[k]
    BY <1>1, <1>5
  <2> QED BY <1>5, <2>1, SeqEqual
<1> DEFINE m == s + 1
<1>7. m \in 1..(z + 1) /\ t \in (m - 1)..z /\ g \in t..z
  BY <1>1
<1>8. SubSeq(J, m, t) \o SubSeq(J, t + 1, g) = SubSeq(J, m, g)
  <2> HIDE DEF m, g, f
  <2> QED BY <1>7, ConcatAdjacentSubSeq
<1> QED BY <1>6, <1>8 DEF c, l

\* The numbers of a decoder.
Counters(d) == d.idx \in Nat /\ d.at \in Nat /\ d.total \in Nat /\ d.start \in Nat

\* A decoder with a chunk in hand stands in it.
LEMMA StandsIn ==
  ASSUME NEW S, NEW cs \in Seq(Seq(S)), NEW d, Counters(d), d.out \in Seq(S), InStep(d, cs),
         d.idx > 0, d.chunk = cs[d.idx]
  PROVE  /\ d.idx \in 1..Len(cs) /\ d.chunk = cs[d.idx] /\ d.chunk \in Seq(S) /\ d.start <= d.total
         /\ InPlace(UpTo(cs), cs, d.idx) /\ d.total = Len(UpTo(cs)[d.idx - 1]) + d.at
<1> DEFINE u == UpTo(cs)
           n == Len(cs)
           i == d.idx
<1>1. Collects(S, cs, u, n)
  BY UpToJoins
<1>2. n \in Nat /\ i \in Nat
  BY LenProperties DEF Counters
<1>3. i <= n /\ i > 0 /\ d.chunk = cs[i] /\ d.total + Len(d.chunk) = Len(u[i]) + d.at
      /\ d.total = d.start + Len(d.out)
  BY DEF InStep
<1> HIDE DEF u, n, i
<1>4. i \in 1..n
  BY <1>2, <1>3
<1>5. InPlace(u, cs, i)
  BY <1>1, <1>4, ChunkInPlace
<1>6. cs[i] \in Seq(S)
  BY <1>4, ElementOfSeq DEF n
<1> DEFINE l == Len(u[i - 1])
           m == Len(cs[i])
           w == Len(u[i])
           o == Len(d.out)
           total == d.total
           start == d.start
           at == d.at
<1>7. l \in Nat /\ m \in Nat /\ w = l + m /\ total + m = w + at /\ total = start + o
  BY <1>3, <1>5 DEF InPlace
<1>8. total \in Nat /\ at \in Nat /\ start \in Nat /\ o \in Nat
  BY LenProperties DEF Counters
<1> HIDE DEF l, m, w, o, total, start, at
<1>9. total = l + at /\ start <= total
  BY <1>7, <1>8
<1> QED BY <1>3, <1>4, <1>5, <1>6, <1>9 DEF u, n, i, l, total, start, at

\* One more byte of the chunk in hand.
LEMMA ByteInStep ==
  ASSUME NEW S, NEW cs \in Seq(Seq(S)), NEW d, Counters(d), d.out \in Seq(S), InStep(d, cs),
         d.at < Len(d.chunk), NEW y,
         y.idx = d.idx, y.chunk = d.chunk, y.start = d.start, y.at = d.at + 1,
         y.total = d.total + 1, y.out = Append(d.out, d.chunk[d.at + 1])
  PROVE  InStep(y, cs)
<1> DEFINE u == UpTo(cs)
           i == d.idx
           J == Join(cs)
           b == cs[i]
           x == b[d.at + 1]
           l == Len(u[i - 1])
           m == Len(b)
           w == Len(u[i])
           z == Len(J)
           o == Len(d.out)
           at == d.at
           total == d.total
           start == d.start
<1>1. at \in Nat /\ total \in Nat /\ start \in Nat /\ o \in Nat
  BY LenProperties DEF Counters
<1>2. d.idx > 0 /\ d.chunk = cs[d.idx]
  <2>1. d.chunk # <<>>
    BY <1>1, EmptySeq
  <2> QED BY <2>1 DEF InStep
<1>3. /\ i \in 1..Len(cs) /\ d.chunk = b /\ b \in Seq(S) /\ start <= total
      /\ InPlace(u, cs, i) /\ total = l + at
  BY <1>2, StandsIn
<1>4. /\ l \in Nat /\ m \in Nat /\ z \in Nat /\ w = l + m /\ w <= z
      /\ \A k \in 1..m : J[l + k] = b[k]
  BY <1>3 DEF InPlace
<1>5. d.out = SubSeq(J, start + 1, total) /\ total = start + o /\ total + Len(d.chunk) = w + at
      /\ i <= Len(cs)
  BY DEF InStep
<1>6. J \in Seq(S)
  BY JoinConcat
<1>7. at < m
  BY <1>3
<1>8. total + m = w + at
  BY <1>3, <1>5
<1> HIDE DEF u, i, J, b, l, m, w, z, o, at, total, start
<1>9. at + 1 \in 1..m /\ total + 1 = l + (at + 1) /\ total + 1 <= z
      /\ (total + 1) + m = w + (at + 1) /\ total + 1 = start + (o + 1) /\ at + 1 <= m
  BY <1>1, <1>3, <1>4, <1>5, <1>7, <1>8
<1>10. x \in S /\ J[total + 1] = x
  <2>1. x \in S
    <3>1. b \in Seq(S) /\ at + 1 \in 1..Len(b)
      BY <1>3, <1>9 DEF m
    <3> QED BY <3>1, ElementOfSeq DEF at
  <2>2. J[l + (at + 1)] = b[at + 1]
    BY <1>4, <1>9
  <2> QED BY <1>9, <2>1, <2>2 DEF at
<1>11. y.out = d.out \o <<x>> /\ Len(y.out) = o + 1
  <2>1. y.out = Append(d.out, x)
    BY <1>3 DEF b, i
  <2> HIDE DEF x
  <2> QED BY <1>10, <2>1, AppendIsConcat, AppendProperties DEF o
<1> HIDE DEF x
<1>12. d.out \o <<x>> = SubSeq(J, start + 1, total + 1)
  <2> DEFINE e == <<x>>
  <2>1. e \in Seq(S) /\ Len(e) = 1 /\ e[1] = x
    BY <1>10
  <2> HIDE DEF e
  <2>2. \A k \in 1..1 : J[total + k] = e[k]
    <3>1. \A k \in 1..1 : k = 1
      OBVIOUS
    <3> QED BY <1>10, <2>1, <3>1
  <2>3. SubSeq(J, start + 1, total) \o e = SubSeq(J, start + 1, total + 1)
    <3>1. ComesNext(J, total, e)
      BY <1>9, <2>1, <2>2 DEF ComesNext, z
    <3>2. start \in Nat /\ total \in Nat /\ start <= total
      BY <1>1, <1>3
    <3>3. SubSeq(J, start + 1, total) \o e = SubSeq(J, start + 1, total + Len(e))
      BY <1>6, <2>1, <3>1, <3>2, PartGrows
    <3> QED BY <2>1, <3>3
  <2> QED BY <1>5, <2>3 DEF e
<1>13. /\ y.idx = i /\ y.chunk = b /\ y.start = start /\ y.at = at + 1 /\ y.total = total + 1
  BY <1>3 DEF i, start, at, total
<1>14. i > 0 /\ b = cs[i]
  <2>1. Len(cs) \in Nat
    BY LenProperties
  <2> QED BY <1>3, <2>1 DEF b
<1>15. y.at <= Len(y.chunk) /\ y.total + Len(y.chunk) = Len(u[y.idx]) + y.at
  BY <1>9, <1>13 DEF m, w
<1>16. y.total = y.start + Len(y.out) /\ y.out = SubSeq(J, y.start + 1, y.total)
  BY <1>9, <1>11, <1>12, <1>13
<1> QED BY <1>5, <1>13, <1>14, <1>15, <1>16 DEF InStep, u, J

\* The chunk in hand is used up, and the next one taken.
Advances(d, x, cs) ==
  /\ x.idx = d.idx + 1 /\ x.idx <= Len(cs) /\ x.chunk = cs[x.idx] /\ x.at = 0
  /\ x.start = d.start /\ x.total = d.total /\ x.out = d.out
  /\ d.at >= Len(d.chunk)

LEMMA NextInStep ==
  ASSUME NEW S, NEW cs \in Seq(Seq(S)), NEW d, Counters(d), d.out \in Seq(S), InStep(d, cs),
         d.chunk \in Seq(S), NEW x, Advances(d, x, cs)
  PROVE  InStep(x, cs)
<1> DEFINE u == UpTo(cs)
           n == Len(cs)
           i == x.idx
           l == Len(u[i - 1])
           m == Len(cs[i])
           w == Len(u[i])
           k == Len(d.chunk)
           at == d.at
           total == d.total
<1>1. Collects(S, cs, u, n)
  BY UpToJoins
<1>2. d.idx \in Nat /\ at \in Nat /\ total \in Nat /\ n \in Nat /\ k \in Nat
  BY LenProperties DEF Counters
<1>3. i = d.idx + 1 /\ i <= n /\ x.chunk = cs[i] /\ x.at = 0
      /\ x.start = d.start /\ x.total = total /\ x.out = d.out
  BY DEF Advances
<1>4. at <= k /\ total + k = Len(u[d.idx]) + at /\ d.total = d.start + Len(d.out)
      /\ d.out = SubSeq(Join(cs), d.start + 1, d.total)
  BY DEF InStep
<1> HIDE DEF u, n, i
<1>5. i \in 1..n /\ d.idx = i - 1 /\ i > 0
  <2> DEFINE j == d.idx
  <2>1. j \in Nat /\ n \in Nat /\ i = j + 1 /\ i <= n
    BY <1>2, <1>3
  <2> HIDE DEF j
  <2>2. i \in 1..n /\ j = i - 1 /\ i > 0
    BY <2>1
  <2> QED BY <2>2 DEF j
<1>6. l \in Nat /\ m \in Nat /\ w = l + m
  <2>1. InPlace(u, cs, i)
    BY <1>1, <1>5, ChunkInPlace
  <2> QED BY <2>1 DEF InPlace
<1>7. total + k = l + at /\ at <= k /\ at >= k
  <2>1. at >= k
    BY DEF Advances
  <2> QED BY <1>4, <1>5, <2>1
<1> HIDE DEF l, m, w, k, at, total
<1>8. total + m = w + 0 /\ 0 <= m
  BY <1>2, <1>6, <1>7
<1>9. x.total + Len(x.chunk) = Len(u[i]) + x.at /\ x.at <= Len(x.chunk)
  BY <1>3, <1>8 DEF m, w
<1>10. x.total = x.start + Len(x.out) /\ x.out = SubSeq(Join(cs), x.start + 1, x.total)
  BY <1>3, <1>4 DEF total
<1> QED BY <1>3, <1>5, <1>9, <1>10 DEF InStep, u, n, i

\* The chunk in hand is handed out as a whole.
HandsOut(x, y, cs) ==
  /\ x.idx > 0 /\ x.chunk = cs[x.idx] /\ x.at = 0
  /\ y.idx = x.idx /\ y.chunk = <<>> /\ y.at = 0 /\ y.start = x.start
  /\ y.total = x.total + Len(x.chunk) /\ y.out = x.out \o x.chunk

LEMMA ItemInStep ==
  ASSUME NEW S, NEW cs \in Seq(Seq(S)), NEW x, Counters(x), x.out \in Seq(S), InStep(x, cs),
         NEW y, HandsOut(x, y, cs)
  PROVE  InStep(y, cs) /\ x.total + Len(x.chunk) <= Len(Join(cs))
<1> DEFINE u == UpTo(cs)
           i == x.idx
           J == Join(cs)
           b == cs[i]
           l == Len(u[i - 1])
           m == Len(b)
           w == Len(u[i])
           z == Len(J)
           o == Len(x.out)
           total == x.total
           start == x.start
<1>1. total \in Nat /\ start \in Nat /\ o \in Nat
  BY LenProperties DEF Counters
<1>2. /\ i \in 1..Len(cs) /\ x.chunk = b /\ b \in Seq(S) /\ start <= total
      /\ InPlace(u, cs, i) /\ total = l + 0
  BY StandsIn DEF HandsOut
<1>3. /\ l \in Nat /\ m \in Nat /\ z \in Nat /\ w = l + m /\ w <= z
      /\ \A k \in 1..m : J[l + k] = b[k]
  BY <1>2 DEF InPlace
<1>4. x.out = SubSeq(J, start + 1, total) /\ total = start + o /\ i <= Len(cs)
  BY DEF InStep
<1>5. J \in Seq(S)
  BY JoinConcat
<1>6. /\ y.idx = i /\ y.chunk = <<>> /\ y.at = 0 /\ y.start = start /\ y.total = total + m
      /\ y.out = x.out \o b
  BY <1>2 DEF HandsOut, i, start, total, m
<1>7. Len(x.out \o b) = o + m
  <2>1. b \in Seq(S)
    BY <1>2
  <2> HIDE DEF b
  <2> QED BY <2>1, ConcatProperties DEF o, m
<1> HIDE DEF u, i, J, b, l, m, w, z, o, total, start
<1>8. total = l /\ total + m = w + 0 /\ total + m <= z /\ total + m = start + (o + m)
  BY <1>1, <1>2, <1>3, <1>4
<1>9. x.out \o b = SubSeq(J, start + 1, total + m)
  <2>1. ComesNext(J, total, b)
    BY <1>3, <1>8 DEF ComesNext, m, z
  <2>2. SubSeq(J, start + 1, total) \o b = SubSeq(J, start + 1, total + Len(b))
    <3>1. start \in Nat /\ total \in Nat /\ start <= total /\ b \in Seq(S)
      BY <1>1, <1>2
    <3> QED BY <1>5, <2>1, <3>1, PartGrows
  <2> QED BY <1>4, <2>2 DEF m
<1>10. Len(<<>>) = 0
  BY EmptySeq
<1>11. y.at <= Len(y.chunk) /\ y.total + Len(y.chunk) = Len(u[y.idx]) + y.at
  <2>1. (total + m) + 0 = w + 0 /\ 0 <= 0
    BY <1>1, <1>3, <1>8
  <2> QED BY <1>6, <1>10, <2>1 DEF w
<1>12. y.total = y.start + Len(y.out) /\ y.out = SubSeq(J, y.start + 1, y.total)
  BY <1>6, <1>7, <1>8, <1>9
<1>13. InStep(y, cs)
  BY <1>4, <1>6, <1>11, <1>12 DEF InStep, u, J
<1>14. x.total + Len(x.chunk) <= Len(Join(cs))
  BY <1>2, <1>8 DEF total, m, z, J
<1> QED BY <1>13, <1>14

\* A decoder with nothing in hand, at the beginning of a chunk or at the end.
LEMMA StartsInStep ==
  ASSUME NEW cs, NEW d, NEW pos \in Nat, d.idx <= Len(cs), d.chunk = <<>>, d.at = 0,
         d.total = pos, d.start = pos, d.out = <<>>, Len(UpTo(cs)[d.idx]) = pos
  PROVE  InStep(d, cs)
<1>1. Len(<<>>) = 0
  BY EmptySeq
<1>2. SubSeq(Join(cs), pos + 1, pos) = <<>>
  BY SubSeqEmpty
<1>3. d.at <= Len(d.chunk) /\ d.total + Len(d.chunk) = Len(UpTo(cs)[d.idx]) + d.at
      /\ d.total = d.start + Len(d.out)
  BY <1>1
<1> QED BY <1>2, <1>3 DEF InStep

\* Where seek_to goes in a file of chunks of one size: the beginning of a chunk.
LEMMA SeeksChunk ==
  ASSUME NEW S, NEW cs \in Seq(Seq(S)), NEW size \in Nat \ {0}, Even(cs, size),
         NEW pos \in Nat, pos % size = 0, pos < Len(Join(cs))
  PROVE  pos \div size <= Len(cs) /\ Len(UpTo(cs)[pos \div size]) = pos
<1> DEFINE u == UpTo(cs)
           n == Len(cs)
           q == pos \div size
           J == Join(cs)
<1>1. Collects(S, cs, u, n) /\ Len(J) \in Nat
  BY UpToJoins, JoinConcat, LenProperties
<1>2. q \in Nat /\ q * size = pos
  BY DividesExactly
<1>3. n \in Nat /\ J = u[n] /\ u[0] = <<>>
  BY <1>1 DEF Collects, Accumulates
<1> HIDE DEF u, n, q, J
<1>4. /\ \A i \in 0..n : i < n => i * size \in Nat /\ Len(u[i]) = i * size
      /\ n > 0 => /\ (n - 1) * size \in Nat /\ Len(cs[n]) \in 0..size
                  /\ Len(u[n]) = (n - 1) * size + Len(cs[n])
  BY <1>1, EvenUpTo
<1>5. n > 0
  <2>1. n = 0 => Len(J) = 0
    BY <1>3, EmptySeq
  <2>2. Len(J) # 0
    BY <1>1 DEF J
  <2> QED BY <1>3, <2>1, <2>2
<1>6. q < n
  <2> SUFFICES ASSUME ~ (q < n) PROVE FALSE
    OBVIOUS
  <2> DEFINE j == n - 1
             k == q - n
             a == j * size
             b == k * size
             z == Len(J)
             m == Len(cs[n])
  <2>1. j \in Nat /\ k \in Nat /\ q = (j + 1) + k
    BY <1>2, <1>3, <1>5
  <2>2. z = a + m /\ m \in 0..size /\ z \in Nat /\ pos < z
    BY <1>1, <1>3, <1>4, <1>5 DEF J
  <2> HIDE DEF j, k, m, z
  <2>3. ((j + 1) + k) * size = (a + size) + b /\ a \in Nat /\ b \in Nat
    BY <2>1
  <2>4. pos = (a + size) + b
    BY <1>2, <2>1, <2>3
  <2> HIDE DEF a, b
  <2> QED BY <2>2, <2>3, <2>4
<1>7. q \in 0..n /\ q <= n
  BY <1>2, <1>3, <1>6
<1>8. Len(u[q]) = pos
  BY <1>2, <1>4, <1>6, <1>7
<1> QED BY <1>7, <1>8 DEF u, n, q

\* An open decoder, of the stores as they are.
Sound(d) == DecoderOK(d, store, corr, log)

\* What a decoder goes through, the types of what it holds.
LEMMA DecoderHas ==
  ASSUME NEW d \in DecodeCall, ReaderHas(d, store, corr, log)
  PROVE  LET cs == BytesOf(d.entry, store) IN
         /\ ChunksOf(d.entry, cs, Len(d.entry.chunks)) /\ cs \in Seq(Chunk)
         /\ ~d.entry.zip => d.entry.size = Len(Join(cs))
         /\ Counters(d) /\ d.out \in Chunk /\ d.chunk \in Chunk
<1> DEFINE e == d.entry
           cs == BytesOf(e, store)
<1>1. Counters(d) /\ d.out \in Chunk /\ d.chunk \in Chunk
  BY DEF DecodeCall, Counters
<1>2. e \in Entry /\ EntryHolds(e, ContentIn(log, d.path, e), store, corr)
  BY DEF ReaderHas
<1> HIDE DEF e
<1>3. ChunksOf(e, cs, Len(e.chunks))
  BY <1>2, EntryChunks DEF EntryHolds
<1>4. ~e.zip => e.size = Len(Join(cs))
  BY <1>2, EntryContent
<1>5. cs \in Seq(Chunk)
  BY <1>3 DEF ChunksOf
<1> QED BY <1>1, <1>3, <1>4, <1>5 DEF e

\* A reader is one by its path and its entry.
LEMMA SameReader ==
  ASSUME NEW c, ReaderHas(c, store, corr, log), NEW x, x.path = c.path, x.entry = c.entry
  PROVE  ReaderHas(x, store, corr, log)
BY DEF ReaderHas

\* What the steps assign.
LEMMA WithChunk ==
  ASSUME NEW d \in DecodeCall, NEW chunk \in Chunk, NEW idx \in Nat, NEW at \in Nat
  PROVE  [d EXCEPT !.chunk = chunk, !.idx = idx, !.at = at] \in DecodeCall
BY DEF DecodeCall

LEMMA WithOut ==
  ASSUME NEW d \in DecodeCall, NEW out \in Chunk, NEW at \in Nat, NEW total \in Nat
  PROVE  [d EXCEPT !.out = out, !.at = at, !.total = total] \in DecodeCall
BY DEF DecodeCall

LEMMA WithItem ==
  ASSUME NEW d \in DecodeCall, NEW out \in Chunk, NEW total \in Nat, NEW chunk \in Chunk, NEW whole \in BOOLEAN
  PROVE  [d EXCEPT !.out = out, !.total = total, !.chunk = chunk, !.whole = whole] \in DecodeCall
BY DEF DecodeCall

LEMMA WithPlace ==
  ASSUME NEW d \in DecodeCall, NEW start \in Nat, NEW total \in Nat, NEW exact \in BOOLEAN,
         NEW idx \in Nat, NEW at \in Nat
  PROVE  [d EXCEPT !.start = start, !.total = total, !.exact = exact, !.idx = idx, !.at = at] \in DecodeCall
BY DEF DecodeCall

Positioned(d, pos, idx, at, exact) ==
  [d EXCEPT !.start = pos, !.total = pos, !.out = <<>>, !.whole = TRUE,
            !.idx = idx, !.chunk = <<>>, !.at = at, !.exact = exact]

LEMMA WithPosition ==
  ASSUME NEW d \in DecodeCall, NEW pos \in Nat, NEW idx \in Nat, NEW at \in Nat, NEW exact \in BOOLEAN
  PROVE  Positioned(d, pos, idx, at, exact) \in DecodeCall
<1> DEFINE x == [d EXCEPT !.start = pos, !.total = pos, !.out = <<>>, !.whole = TRUE]
           y == [x EXCEPT !.idx = idx, !.chunk = <<>>, !.at = at, !.exact = exact]
<1>1. <<>> \in Chunk
  BY EmptySeq DEF Chunk
<1>2. x \in DecodeCall
  BY <1>1 DEF DecodeCall
<1>3. y = Positioned(d, pos, idx, at, exact)
  BY DEF Positioned
<1>4. y \in DecodeCall
  <2> HIDE DEF x
  <2> QED BY <1>1, <1>2 DEF DecodeCall
<1> QED BY <1>3, <1>4

\* decode_next_chunk gives the bytes of the next chunk.
Loads(d, x) ==
  LET cs == BytesOf(d.entry, store) IN
  /\ x \in DecodeCall /\ ReaderHas(x, store, corr, log)
  /\ x.path = d.path /\ x.entry = d.entry /\ x.exact = d.exact /\ x.whole = d.whole
  /\ x.idx = d.idx + 1 /\ x.idx <= Len(cs) /\ x.chunk = cs[x.idx] /\ x.at = 0
  /\ x.start = d.start /\ x.total = d.total /\ x.out = d.out

LEMMA NextChunkLoads ==
  ASSUME NEW d \in DecodeCall, ReaderHas(d, store, corr, log), ~NoMore(d)
  PROVE  Loads(d, NextChunk(d))
<1> DEFINE e == d.entry
           cs == BytesOf(e, store)
           n == Len(e.chunks)
           i == d.idx + 1
           id == e.chunks[i]
           b == cs[i]
           x == NextChunk(d)
<1>1. ChunksOf(e, cs, n)
  BY DecoderHas
<1>2. d.idx \in Nat /\ n \in Nat
  BY <1>1 DEF DecodeCall, ChunksOf
<1>3. i \in 1..n /\ i <= n /\ Len(cs) = n
  <2>1. ~ (d.idx >= n)
    BY DEF NoMore
  <2>2. Len(cs) = n
    BY <1>1 DEF ChunksOf
  <2> DEFINE j == d.idx
  <2>3. j \in Nat /\ ~ (j >= n)
    BY <1>2, <2>1
  <2> HIDE DEF j, n
  <2>4. j + 1 \in 1..n /\ j + 1 <= n
    BY <1>2, <2>3
  <2> QED BY <2>2, <2>4 DEF j
<1> HIDE DEF cs, n
<1>4. /\ b \in Chunk /\ store[id].bytes = b /\ id \in DOMAIN store /\ id \in DOMAIN corr
      /\ store[id].format = e.format /\ corr[id] = b
  BY <1>1, <1>3 DEF ChunksOf
<1>5. Corrected(id, Decode(store[id], e.format, Size(id))) = b
  <2> DEFINE f == e.format
  <2> HIDE DEF id, b, f
  <2>1. id \in DOMAIN corr /\ store[id].format = f /\ store[id].bytes \in Chunk /\ corr[id] = store[id].bytes
    BY <1>4 DEF f
  <2> QED BY <1>4, <2>1, CorrectedIsExact DEF f
<1>6. x = [d EXCEPT !.chunk = b, !.idx = @ + 1, !.at = 0]
  BY <1>4, <1>5 DEF NextChunk
<1> HIDE DEF b, x, e
<1>7. x \in DecodeCall
  <2>1. i \in Nat /\ 0 \in Nat
    BY <1>2
  <2>2. x = [d EXCEPT !.chunk = b, !.idx = i, !.at = 0]
    BY <1>6
  <2> HIDE DEF i
  <2> QED BY <1>4, <2>1, <2>2, WithChunk
<1>8. /\ x.path = d.path /\ x.entry = d.entry /\ x.exact = d.exact /\ x.whole = d.whole
      /\ x.idx = i /\ x.chunk = b /\ x.at = 0
      /\ x.start = d.start /\ x.total = d.total /\ x.out = d.out
  BY <1>6 DEF DecodeCall
<1>9. ReaderHas(x, store, corr, log)
  BY <1>8, SameReader
<1> QED BY <1>3, <1>7, <1>8, <1>9 DEF Loads, x, b, cs, e

\* When the chunk in hand is used up, the decoder stays in step.
LEMMA NextChunkSound ==
  ASSUME NEW d, Sound(d), ~NoMore(d)
  PROVE  LET x == NextChunk(d)
             cs == BytesOf(d.entry, store)
         IN  Loads(d, x) /\ (~d.entry.zip /\ d.exact /\ d.whole /\ d.at >= Len(d.chunk) => InStep(x, cs))
<1> DEFINE x == NextChunk(d)
           cs == BytesOf(d.entry, store)
<1>1. d \in DecodeCall /\ ReaderHas(d, store, corr, log)
  BY DEF Sound, DecoderOK
<1>2. Loads(d, x)
  BY <1>1, NextChunkLoads
<1>3. cs \in Seq(Chunk) /\ Counters(d) /\ d.out \in Chunk /\ d.chunk \in Chunk
  BY <1>1, DecoderHas
<1> HIDE DEF x, cs
<1>4. ASSUME ~d.entry.zip, d.exact, d.whole, d.at >= Len(d.chunk) PROVE InStep(x, cs)
  <2>1. InStep(d, cs)
    BY <1>4 DEF Sound, DecoderOK, cs
  <2>2. Advances(d, x, cs)
    BY <1>2, <1>4 DEF Loads, Advances, cs
  <2> QED BY <1>3, <2>1, <2>2, NextInStep DEF Chunk
<1> QED BY <1>2, <1>4 DEF x, cs

\* read_n_bytes, one byte of it.
LEMMA ReadByteKept ==
  ASSUME NEW d, Sound(d)
  PROVE  Sound(ReadByte(d))
<1> DEFINE full == IF d.at >= Len(d.chunk) /\ ~NoMore(d) THEN NextChunk(d) ELSE d
           x == full.chunk[full.at + 1]
           y == [full EXCEPT !.out = Append(@, x), !.at = @ + 1, !.total = @ + 1]
           cs == BytesOf(full.entry, store)
<1>1. Sound(full)
  <2>1. CASE d.at >= Len(d.chunk) /\ ~NoMore(d)
    <3> DEFINE z == NextChunk(d)
    <3>1. Loads(d, z) /\ (~d.entry.zip /\ d.exact /\ d.whole => InStep(z, BytesOf(d.entry, store)))
      BY <2>1, NextChunkSound
    <3>2. full = z
      BY <2>1
    <3> HIDE DEF z, full
    <3>3. Sound(z)
      BY <3>1 DEF Loads, Sound, DecoderOK
    <3> QED BY <3>2, <3>3
  <2>2. CASE ~ (d.at >= Len(d.chunk) /\ ~NoMore(d))
    BY <2>2
  <2> QED BY <2>1, <2>2
<1>2. ReadByte(d) = IF d.broken \/ full.broken \/ full.at >= Len(full.chunk) THEN full ELSE y
  BY DEF ReadByte
<1> HIDE DEF full
<1>3. full \in DecodeCall /\ ReaderHas(full, store, corr, log)
  BY <1>1 DEF Sound, DecoderOK
<1>4. cs \in Seq(Chunk) /\ Counters(full) /\ full.out \in Chunk /\ full.chunk \in Chunk
  BY <1>3, DecoderHas
<1>5. CASE full.at >= Len(full.chunk)
  <2>1. ReadByte(d) = full
    BY <1>2, <1>5
  <2> QED BY <1>1, <2>1
<1>6. CASE ~ (full.at >= Len(full.chunk))
  <2>1. full.at \in Nat /\ Len(full.chunk) \in Nat
    BY <1>4, LenProperties DEF Counters, Chunk
  <2>2. full.at < Len(full.chunk) /\ full.at + 1 \in 1..Len(full.chunk)
    <3> DEFINE at == full.at
               l == Len(full.chunk)
    <3>1. at \in Nat /\ l \in Nat /\ ~ (at >= l)
      BY <1>6, <2>1
    <3> HIDE DEF at, l
    <3>2. at < l /\ at + 1 \in 1..l
      BY <3>1
    <3> QED BY <3>2 DEF at, l
  <2>3. x \in Bytes \cup {Envelope}
    BY <1>4, <2>2, ElementOfSeq DEF Chunk
  <2> HIDE DEF x, cs
  <2>4. Append(full.out, x) \in Chunk
    BY <1>4, <2>3, AppendProperties DEF Chunk
  <2>5. y \in DecodeCall
    <3> DEFINE out == Append(full.out, x)
               at == full.at + 1
               total == full.total + 1
    <3>1. out \in Chunk /\ at \in Nat /\ total \in Nat
      BY <1>4, <2>4 DEF Counters
    <3>2. y = [full EXCEPT !.out = out, !.at = at, !.total = total]
      OBVIOUS
    <3> HIDE DEF out, at, total, y
    <3> QED BY <1>3, <3>1, <3>2, WithOut
  <2>6. /\ y.path = full.path /\ y.entry = full.entry /\ y.exact = full.exact /\ y.whole = full.whole
        /\ y.idx = full.idx /\ y.chunk = full.chunk /\ y.start = full.start
        /\ y.at = full.at + 1 /\ y.total = full.total + 1 /\ y.out = Append(full.out, x)
    BY <1>3 DEF DecodeCall
  <2>7. ReadByte(d) = full \/ ReadByte(d) = y
    BY <1>2
  <2> HIDE DEF y
  <2>8. ReaderHas(y, store, corr, log)
    BY <1>3, <2>6, SameReader
  <2>9. ASSUME ~full.entry.zip, full.exact, full.whole PROVE InStep(y, cs)
    <3>1. InStep(full, cs)
      BY <1>1, <2>9 DEF Sound, DecoderOK, cs
    <3>2. y.out = Append(full.out, full.chunk[full.at + 1])
      BY <2>6 DEF x
    <3> QED BY <1>4, <2>2, <2>6, <3>1, <3>2, ByteInStep DEF Chunk
  <2>10. Sound(y)
    BY <2>5, <2>6, <2>8, <2>9 DEF Sound, DecoderOK, cs
  <2> QED BY <1>1, <2>7, <2>10
<1> QED BY <1>5, <1>6

\* A part of a sequence.
LEMMA SliceType ==
  ASSUME NEW S, NEW d \in Seq(S), NEW from \in Nat, NEW m \in Nat
  PROVE  Slice(d, from, m) \in Seq(S)
<1> DEFINE l == Len(d)
           f == from + 1
           g == MinOf(from + m, l)
<1>1. l \in Nat
  BY LenProperties
<1>2. f \in Int /\ g \in Int /\ \A k \in f..g : k \in 1..l
  BY <1>1 DEF MinOf
<1>3. \A k \in f..g : d[k] \in S
  BY <1>2, ElementOfSeq
<1>4. Slice(d, from, m) = SubSeq(d, f, g)
  BY DEF Slice
<1> HIDE DEF f, g
<1> QED BY <1>2, <1>3, <1>4, SubSeqProperties

\* next: the next chunk as a whole, or, after a partial read, not.
LEMMA NextItemKept ==
  ASSUME NEW d, Sound(d)
  PROVE  Sound(NextItem(d))
<1>1. CASE Exhausted(d) \/ NoMore(d)
  <2>1. NextItem(d) = d
    BY <1>1 DEF NextItem
  <2> QED BY <2>1
<1>2. CASE ~Exhausted(d) /\ ~NoMore(d)
  <2> DEFINE x == NextChunk(d)
             cs == BytesOf(d.entry, store)
             size == d.entry.size
             m == size - d.total
             item == Slice(x.chunk, 0, m)
             w == d.whole /\ d.at >= Len(d.chunk)
             y == [x EXCEPT !.out = @ \o item, !.total = @ + Len(item), !.chunk = <<>>, !.whole = w]
  <2>1. Loads(d, x) /\ (~d.entry.zip /\ d.exact /\ d.whole /\ d.at >= Len(d.chunk) => InStep(x, cs))
    BY <1>2, NextChunkSound
  <2>2. NextItem(d) = IF x.broken THEN x ELSE y
    BY <1>2 DEF NextItem
  <2>3. d \in DecodeCall /\ ReaderHas(d, store, corr, log)
    BY DEF Sound, DecoderOK
  <2> HIDE DEF x
  <2>4. x \in DecodeCall /\ ReaderHas(x, store, corr, log) /\ x.entry = d.entry
    BY <2>1 DEF Loads
  <2>5. cs \in Seq(Chunk) /\ Counters(x) /\ x.out \in Chunk /\ x.chunk \in Chunk
        /\ (~d.entry.zip => size = Len(Join(cs)))
    BY <2>4, DecoderHas
  <2>6. m \in Nat
    <3>1. ~ (d.total >= size) /\ d.total \in Nat
      BY <1>2, <2>3 DEF Exhausted, DecodeCall
    <3>2. size \in Nat
      BY <2>3 DEF DecodeCall, Entry
    <3> QED BY <3>1, <3>2
  <2>7. item \in Chunk
    <3> HIDE DEF m
    <3> QED BY <2>5, <2>6, SliceType DEF Chunk
  <2>8. NextItem(d) = y
    BY <2>2, <2>4 DEF DecodeCall
  <2> HIDE DEF item, w
  <2> DEFINE out == x.out \o item
             total == x.total + Len(item)
  <2>9. out \in Chunk /\ total \in Nat /\ <<>> \in Chunk /\ w \in BOOLEAN
    <3>1. out \in Chunk /\ Len(item) \in Nat
      BY <2>5, <2>7, ConcatProperties, LenProperties DEF Chunk
    <3>2. x.total \in Nat
      BY <2>5 DEF Counters
    <3>3. w \in BOOLEAN
      BY <2>3 DEF w, DecodeCall
    <3> QED BY <3>1, <3>2, <3>3, EmptySeq DEF Chunk
  <2>10. y = [x EXCEPT !.out = out, !.total = total, !.chunk = <<>>, !.whole = w]
    OBVIOUS
  <2> HIDE DEF y, out, total
  <2>11. y \in DecodeCall
    BY <2>4, <2>9, <2>10, WithItem
  <2>12. /\ y.path = x.path /\ y.entry = x.entry /\ y.exact = x.exact /\ y.whole = w
         /\ y.idx = x.idx /\ y.chunk = <<>> /\ y.at = x.at /\ y.start = x.start
         /\ y.out = out /\ y.total = total
    BY <2>4, <2>10 DEF DecodeCall
  <2>13. ReaderHas(y, store, corr, log)
    BY <2>4, <2>12, SameReader
  <2>14. ASSUME ~y.entry.zip, y.exact, y.whole PROVE InStep(y, BytesOf(y.entry, store))
    <3>1. ~d.entry.zip /\ d.exact /\ d.whole /\ d.at >= Len(d.chunk)
      BY <2>1, <2>4, <2>12, <2>14 DEF Loads, w
    <3>2. InStep(x, cs)
      BY <2>1, <3>1
    <3>3. /\ x.idx > 0 /\ x.chunk = cs[x.idx] /\ x.at = 0 /\ x.total = d.total
      <4>1. d.idx \in Nat /\ x.idx = d.idx + 1 /\ x.chunk = cs[x.idx] /\ x.at = 0 /\ x.total = d.total
        BY <2>1, <2>3 DEF Loads, DecodeCall
      <4>2. x.idx > 0
        BY <4>1
      <4> QED BY <4>1, <4>2
    <3> DEFINE z == [x EXCEPT !.out = x.out \o x.chunk, !.total = x.total + Len(x.chunk), !.chunk = <<>>, !.whole = w]
    <3>4. HandsOut(x, z, cs)
      BY <2>4, <3>3 DEF HandsOut, DecodeCall
    <3> HIDE DEF z, cs
    <3>5. InStep(z, cs) /\ x.total + Len(x.chunk) <= Len(Join(cs))
      BY <2>5, <3>2, <3>4, ItemInStep DEF Chunk
    <3>6. item = x.chunk
      <4> DEFINE l == Len(x.chunk)
                 s == size
                 a == x.total
      <4>1. l \in Nat /\ a \in Nat /\ s \in Nat /\ m = s - a /\ a + l <= s
        <5>1. l \in Nat
          BY <2>5, LenProperties DEF Chunk
        <5>2. a \in Nat
          BY <2>5 DEF Counters
        <5>3. s = Len(Join(cs)) /\ s \in Nat
          BY <2>3, <2>5, <3>1 DEF DecodeCall, Entry
        <5> QED BY <3>3, <3>5, <5>1, <5>2, <5>3
      <4>2. item = SubSeq(x.chunk, 0 + 1, MinOf(0 + m, l))
        BY DEF item, Slice
      <4>3. SubSeq(x.chunk, 1, l) = x.chunk
        BY <2>5, SubSeqFull DEF Chunk
      <4> HIDE DEF l, s, a, m
      <4>4. MinOf(0 + m, l) = l /\ 0 + 1 = 1
        BY <4>1 DEF MinOf
      <4> QED BY <4>2, <4>3, <4>4
    <3>7. y = z
      BY <2>10, <3>6 DEF z, out, total
    <3> QED BY <2>4, <2>12, <3>5, <3>7 DEF cs
  <2>15. Sound(y)
    BY <2>11, <2>13, <2>14 DEF Sound, DecoderOK
  <2> QED BY <2>8, <2>15
<1> QED BY <1>1, <1>2

\* Chunks of one size, by the entry or by the bytes.
LEMMA UniformIsEven ==
  ASSUME NEW e, NEW cs, NEW n, ChunksOf(e, cs, n), NEW size
  PROVE  Uniform(e, size) <=> Even(cs, size)
<1>1. Len(e.chunks) = n /\ Len(cs) = n /\ DOMAIN e.chunks = 1..n /\ DOMAIN cs = 1..n
  BY LenProperties DEF ChunksOf
<1>2. \A i \in 1..n : Size(e.chunks[i]) = Len(cs[i])
  BY DEF ChunksOf
<1> QED BY <1>1, <1>2 DEF Uniform, Even

\* seek_to
LEMMA SeekToKept ==
  ASSUME NEW d, Sound(d), NEW pos \in SeekOffsets
  PROVE  Sound(SeekTo(d, pos))
<1> DEFINE q == pos \div DefaultSize
           r == pos % DefaultSize
           e == d.entry
           ex == r = 0 /\ Uniform(e, DefaultSize)
           cs == BytesOf(e, store)
           size == e.size
           len == Len(e.chunks)
           moved == [d EXCEPT !.start = pos, !.total = pos, !.out = <<>>, !.whole = TRUE,
                              !.idx = q, !.chunk = <<>>, !.at = r, !.exact = ex]
           loaded == NextChunk(moved)
           last == [moved EXCEPT !.start = size, !.total = size, !.exact = TRUE, !.idx = len, !.at = 0]
           back == [loaded EXCEPT !.idx = @ - 1, !.at = r]
<1>1. SeekTo(d, pos) = IF pos >= size THEN last
                       ELSE IF r = 0 \/ NoMore(moved) THEN moved
                       ELSE IF loaded.broken THEN loaded ELSE back
  BY DEF SeekTo
<1>2. d \in DecodeCall /\ ReaderHas(d, store, corr, log)
  BY DEF Sound, DecoderOK
<1>3. pos \in Nat /\ q \in Nat /\ r \in Nat /\ DefaultSize \in Nat \ {0}
  <2>1. pos \in Nat /\ DefaultSize \in Nat \ {0}
    BY CallsAssumption, SizesAssumption
  <2> DEFINE z == DefaultSize
  <2> HIDE DEF z
  <2>2. z \in Nat \ {0}
    BY <2>1 DEF z
  <2>3. pos \div z \in Nat /\ pos % z \in Nat
    BY <2>1, <2>2, Z3
  <2> QED BY <2>1, <2>3 DEF z
<1>4. e \in Entry /\ size \in Nat /\ ChunksOf(e, cs, len) /\ cs \in Seq(Chunk)
      /\ (~e.zip => size = Len(Join(cs)))
  BY <1>2, DecoderHas DEF DecodeCall, Entry
<1>5. len \in Nat /\ Len(cs) = len
  BY <1>4 DEF ChunksOf
<1>6. ex \in BOOLEAN
  OBVIOUS
<1> HIDE DEF q, r, e, ex, cs, size, len
<1>7. moved \in DecodeCall
  <2>1. moved = Positioned(d, pos, q, r, ex)
    BY DEF Positioned
  <2>2. Positioned(d, pos, q, r, ex) \in DecodeCall
    BY <1>2, <1>3, <1>6, WithPosition
  <2> HIDE DEF moved
  <2> QED BY <2>1, <2>2
<1>8. /\ moved.path = d.path /\ moved.entry = e
      /\ moved.start = pos /\ moved.total = pos /\ moved.out = <<>>
      /\ moved.idx = q /\ moved.chunk = <<>> /\ moved.at = r /\ moved.exact = ex
  BY <1>2 DEF DecodeCall, e
<1> HIDE DEF moved
<1>9. ReaderHas(moved, store, corr, log)
  BY <1>2, <1>8, SameReader DEF e
<1>10. CASE pos >= size
  <2>1. last \in DecodeCall
    BY <1>4, <1>5, <1>7, WithPlace
  <2>2. /\ last.path = moved.path /\ last.entry = moved.entry
        /\ last.start = size /\ last.total = size /\ last.out = moved.out
        /\ last.idx = len /\ last.chunk = moved.chunk /\ last.at = 0
    BY <1>7 DEF DecodeCall
  <2> HIDE DEF last
  <2>3. ReaderHas(last, store, corr, log)
    BY <1>9, <2>2, SameReader
  <2>4. ASSUME ~last.entry.zip PROVE InStep(last, cs)
    <3>1. size = Len(Join(cs))
      BY <1>4, <1>8, <2>2, <2>4
    <3>2. Collects(Bytes \cup {Envelope}, cs, UpTo(cs), Len(cs))
      BY <1>4, UpToJoins DEF Chunk
    <3>3. Len(UpTo(cs)[len]) = size
      BY <1>5, <3>1, <3>2 DEF Collects
    <3>4. last.idx <= Len(cs)
      BY <1>5, <2>2
    <3> QED BY <1>4, <1>8, <2>2, <3>3, <3>4, StartsInStep
  <2>5. Sound(last)
    BY <1>8, <2>1, <2>2, <2>3, <2>4 DEF Sound, DecoderOK, cs
  <2> QED BY <1>1, <1>10, <2>5
<1>11. CASE ~ (pos >= size) /\ (r = 0 \/ NoMore(moved))
  <2>1. ASSUME ~moved.entry.zip, moved.exact PROVE InStep(moved, cs)
    <3>1. r = 0 /\ Even(cs, DefaultSize)
      <4>1. r = 0 /\ Uniform(e, DefaultSize)
        BY <1>8, <2>1 DEF ex
      <4> QED BY <1>4, <4>1, UniformIsEven
    <3>2. pos < Len(Join(cs)) /\ pos % DefaultSize = 0
      <4>1. pos < size
        BY <1>3, <1>4, <1>11
      <4> QED BY <1>4, <1>8, <2>1, <3>1, <4>1 DEF r
    <3>3. q <= Len(cs) /\ Len(UpTo(cs)[q]) = pos
      <4>1. cs \in Seq(Seq(Bytes \cup {Envelope}))
        BY <1>4 DEF Chunk
      <4> QED BY <1>3, <3>1, <3>2, <4>1, SeeksChunk DEF q
    <3> QED BY <1>3, <1>8, <3>1, <3>3, StartsInStep
  <2>2. Sound(moved)
    BY <1>7, <1>8, <1>9, <2>1 DEF Sound, DecoderOK, cs
  <2> QED BY <1>1, <1>11, <2>2
<1>12. CASE ~ (pos >= size) /\ ~ (r = 0) /\ ~NoMore(moved)
  <2>1. Loads(moved, loaded)
    BY <1>7, <1>9, <1>12, NextChunkLoads
  <2> HIDE DEF loaded
  <2>2. /\ loaded \in DecodeCall /\ ReaderHas(loaded, store, corr, log)
        /\ loaded.idx = q + 1 /\ loaded.exact = FALSE
    BY <1>8, <1>12, <2>1 DEF Loads, ex
  <2>3. loaded.broken = FALSE /\ loaded.idx - 1 \in Nat
    <3>1. loaded.broken = FALSE
      BY <2>2 DEF DecodeCall
    <3>2. (q + 1) - 1 \in Nat
      BY <1>3
    <3> QED BY <2>2, <3>1, <3>2
  <2>4. back \in DecodeCall
    <3> DEFINE i == loaded.idx - 1
    <3>1. back = [loaded EXCEPT !.idx = i, !.at = r]
      OBVIOUS
    <3>2. i \in Nat
      BY <2>3
    <3> HIDE DEF back, i
    <3> QED BY <1>3, <2>2, <3>1, <3>2 DEF DecodeCall
  <2>5. back.path = loaded.path /\ back.entry = loaded.entry /\ back.exact = loaded.exact
    BY <2>2 DEF DecodeCall
  <2> HIDE DEF back
  <2>6. ReaderHas(back, store, corr, log)
    BY <2>2, <2>5, SameReader
  <2>7. Sound(back)
    BY <2>2, <2>4, <2>5, <2>6 DEF Sound, DecoderOK
  <2> QED BY <1>1, <1>12, <2>3, <2>7
<1> QED BY <1>10, <1>11, <1>12

\* The loop of read_n_bytes.
LEMMA ReadNKept ==
  ASSUME NEW d, Sound(d), NEW n \in Nat
  PROVE  Sound(ReadN(d, n))
<1> DEFINE More(x) == IF Exhausted(x) THEN x ELSE ReadByte(x)
           Good(m, h) == /\ h = [i \in 0..m |-> h[i]] /\ h[0] = d
                         /\ \A i \in 1..m : h[i] = More(h[i - 1])
           G == {m \in 0..n : \E h : Good(m, h)}
           Step(g) == [i \in 0..n |-> IF i = 0 THEN d
                                      ELSE IF Exhausted(g[i - 1]) THEN g[i - 1] ELSE ReadByte(g[i - 1])]
           read == CHOOSE g : g = Step(g)
<1>1. ReadN(d, n) = read[n]
  BY DEF ReadN
<1>2. \A x : Sound(x) => Sound(More(x))
  BY ReadByteKept
<1>3. 0 \in G
  <2> DEFINE h == [i \in 0..0 |-> d]
  <2>1. Good(0, h)
    OBVIOUS
  <2> HIDE DEF Good, h
  <2> QED BY <2>1
<1>4. ASSUME NEW m \in 1..n, m - 1 \in G PROVE m \in G
  <2> HIDE DEF More, read, Step
  <2>1. PICK h : Good(m - 1, h)
    <3> HIDE DEF Good
    <3> QED BY <1>4
  <2>2. h[0] = d /\ \A i \in 1..(m - 1) : h[i] = More(h[i - 1])
    BY <2>1
  <2> DEFINE last == More(h[m - 1])
             g == [i \in 0..m |-> IF i = m THEN last ELSE h[i]]
  <2>3. Good(m, g)
    <3>1. \A i \in 0..m : g[i] = IF i = m THEN last ELSE h[i]
      OBVIOUS
    <3>2. g = [i \in 0..m |-> g[i]]
      OBVIOUS
    <3> HIDE DEF g
    <3>3. m \in Nat /\ 0 \in 0..m /\ m # 0
      OBVIOUS
    <3>4. g[0] = d
      <4> HIDE DEF last
      <4> QED BY <2>2, <3>1, <3>3
    <3>5. ASSUME NEW i \in 1..m PROVE g[i] = More(g[i - 1])
      <4>1. i \in Nat /\ i - 1 \in 0..(m - 1) /\ i \in 0..m /\ i - 1 \in 0..m /\ i - 1 # m
        OBVIOUS
      <4>2. g[i - 1] = h[i - 1]
        BY <3>1, <4>1
      <4>3. CASE i = m
        BY <3>1, <4>1, <4>2, <4>3
      <4>4. CASE i # m
        <5>1. i \in 1..(m - 1)
          BY <4>4
        <5> QED BY <2>2, <3>1, <4>1, <4>2, <4>4, <5>1
      <4> QED BY <4>3, <4>4
    <3> QED BY <3>2, <3>4, <3>5
  <2> HIDE DEF Good, g
  <2>4. m \in 0..n
    OBVIOUS
  <2> QED BY <2>3, <2>4
<1>5. PICK h : Good(n, h)
  <2> HIDE DEF G
  <2>1. \A m \in 0..n : m \in G
    BY <1>3, <1>4, Climb
  <2>2. n \in G
    BY <2>1
  <2> HIDE DEF Good
  <2> QED BY <2>2 DEF G
<1>6. h = Step(h)
  <2>1. h = [i \in 0..n |-> h[i]]
    BY <1>5
  <2>2. ASSUME NEW i \in 0..n PROVE h[i] = IF i = 0 THEN d ELSE More(h[i - 1])
    <3>1. CASE i = 0
      BY <1>5, <3>1
    <3>2. CASE i # 0
      <4>1. i \in 1..n
        BY <3>2
      <4>2. \A j \in 1..n : h[j] = More(h[j - 1])
        BY <1>5
      <4> HIDE DEF Good, More, G
      <4> QED BY <3>2, <4>1, <4>2
    <3> QED BY <3>1, <3>2
  <2>3. Step(h) = [i \in 0..n |-> IF i = 0 THEN d ELSE More(h[i - 1])]
    OBVIOUS
  <2> HIDE DEF Good, More, Step, G
  <2>4. [i \in 0..n |-> h[i]] = [i \in 0..n |-> IF i = 0 THEN d ELSE More(h[i - 1])]
    BY <2>2
  <2> QED BY <2>1, <2>3, <2>4
<1>7. read = Step(read)
  <2> HIDE DEF Step, Good, G
  <2> QED BY <1>6
<1> HIDE DEF read
<1>8. \A i \in 0..n : read[i] = IF i = 0 THEN d ELSE More(read[i - 1])
  <2>1. \A i \in 0..n : Step(read)[i] = IF i = 0 THEN d ELSE More(read[i - 1])
    OBVIOUS
  <2> HIDE DEF Step, Good, More, G
  <2> QED BY <1>7, <2>1
<1> HIDE DEF Step, Good, More, G
<1> DEFINE H == {i \in 0..n : Sound(read[i])}
<1>9. 0 \in H
  BY <1>8
<1>10. ASSUME NEW i \in 1..n, i - 1 \in H PROVE i \in H
  <2>1. i \in 0..n /\ i # 0
    OBVIOUS
  <2> QED BY <1>2, <1>8, <1>10, <2>1
<1> HIDE DEF H
<1>11. \A i \in 0..n : i \in H
  BY <1>9, <1>10, Climb
<1>12. Sound(read[n])
  BY <1>11 DEF H
<1> QED BY <1>1, <1>12

\* A step after which the thread holds a decoder.
LEMMA DecoderStep ==
  ASSUME Inductive, NEW t \in Threads, NEW d, Becomes(t, d), Sound(d),
         UNCHANGED <<files, stores, root, holographic, log>>
  PROVE  Inductive'
<1>1. d.pc = "decode"
  BY DEF Sound, DecoderOK, DecodeCall
<1>2. d.pc \in PCs /\ Owned(d) = {} /\ CallOK(d, holographic, store, corr, log, root)
  BY <1>1 DEF Sound, PCs, Owned, CallOK, WritePCs
<1>3. nextId' \in Nat \ {0} /\ nextId <= nextId'
  BY DEF stores, Inductive, Typed
<1> QED BY <1>2, <1>3, QuietStep DEF stores

\* stream_decode and stream_decode_range
LEMMA OpenDecoderOK ==
  ASSUME Inductive, NEW t \in Threads, NEW p \in Paths, NEW pos \in SeekOffsets, OpenDecoder(t, p, pos)
  PROVE  Inductive'
<1> DEFINE e == Open(p)
           d == Decoder(e, p)
<1>1. /\ Becomes(t, Failed) \/ (e # None /\ (Becomes(t, d) \/ Becomes(t, SeekTo(d, pos))))
      /\ UNCHANGED <<files, stores, root, holographic, log>>
  BY DEF OpenDecoder
<1>2. ASSUME e # None PROVE Sound(d)
  <2>1. d.path = p /\ d.entry = e
    BY DEF Decoder
  <2>2. ReaderHas(d, store, corr, log)
    BY <1>2, <2>1, OpenHas
  <2>3. e \in Entry
    BY <2>1, <2>2 DEF ReaderHas
  <2>4. <<>> \in Chunk
    BY EmptySeq DEF Chunk
  <2> HIDE DEF e
  <2>5. d \in DecodeCall
    BY <2>3, <2>4 DEF Decoder, DecodeCall
  <2>6. d.idx = 0 /\ d.chunk = <<>> /\ d.at = 0 /\ d.total = 0 /\ d.start = 0 /\ d.out = <<>>
    BY DEF Decoder
  <2> HIDE DEF d
  <2>7. InStep(d, BytesOf(d.entry, store))
    <3> DEFINE cs == BytesOf(d.entry, store)
    <3>1. cs \in Seq(Chunk)
      BY <2>2, <2>5, DecoderHas
    <3> HIDE DEF cs
    <3>2. Collects(Bytes \cup {Envelope}, cs, UpTo(cs), Len(cs))
      BY <3>1, UpToJoins DEF Chunk
    <3>3. UpTo(cs)[0] = <<>> /\ 0 <= Len(cs)
      BY <3>2 DEF Collects, Accumulates
    <3>4. Len(UpTo(cs)[0]) = 0
      BY <3>3, EmptySeq
    <3>5. InStep(d, cs)
      BY <2>6, <3>3, <3>4, StartsInStep
    <3> QED BY <3>5 DEF cs
  <2> QED BY <2>2, <2>5, <2>7 DEF Sound, DecoderOK
<1> HIDE DEF d, e
<1>3. e # None => Sound(SeekTo(d, pos))
  BY <1>2, SeekToKept
<1>4. CASE Becomes(t, Failed)
  <2>1. nextId' \in Nat \ {0} /\ nextId <= nextId'
    BY <1>1 DEF stores, Inductive, Typed
  <2> QED BY <1>1, <1>4, <2>1, EndedOK, QuietStep DEF stores
<1> QED BY <1>1, <1>2, <1>3, <1>4, DecoderStep

\* read, next and seek_to
LEMMA UseDecoderOK ==
  ASSUME Inductive, NEW t \in Threads, UseDecoder(t)
  PROVE  Inductive'
<1>1. ASSUME NEW d, Sound(d), Use(t, d) PROVE Inductive'
  <2> DEFINE x == [d EXCEPT !.uses = @ + 1]
  <2>1. Becomes(t, x) /\ UNCHANGED <<files, stores, root, holographic, log>>
    BY <1>1 DEF Use
  <2>2. d \in DecodeCall /\ ReaderHas(d, store, corr, log)
    BY <1>1 DEF Sound, DecoderOK
  <2>3. x \in DecodeCall
    <3> DEFINE u == d.uses + 1
    <3>1. u \in Nat /\ x = [d EXCEPT !.uses = u]
      BY <2>2 DEF DecodeCall
    <3> HIDE DEF u, x
    <3> QED BY <2>2, <3>1 DEF DecodeCall
  <2>4. /\ x.path = d.path /\ x.entry = d.entry /\ x.exact = d.exact /\ x.whole = d.whole
        /\ x.idx = d.idx /\ x.chunk = d.chunk /\ x.at = d.at /\ x.total = d.total
        /\ x.start = d.start /\ x.out = d.out
    BY <2>2 DEF DecodeCall
  <2> HIDE DEF x
  <2>5. ReaderHas(x, store, corr, log)
    BY <2>2, <2>4, SameReader
  <2>6. ASSUME NEW cs, InStep(d, cs) PROVE InStep(x, cs)
    BY <2>4, <2>6 DEF InStep
  <2>7. Sound(x)
    BY <1>1, <2>3, <2>4, <2>5, <2>6 DEF Sound, DecoderOK
  <2> QED BY <2>1, <2>7, DecoderStep
<1>2. call[t].pc = "decode"
  BY DEF UseDecoder, Use
<1>3. Sound(call[t])
  BY <1>2 DEF Inductive, CallsOK, CallOK, Sound
<1>4. ASSUME NEW n \in Pieces, Use(t, ReadN(call[t], n)) PROVE Inductive'
  <2>1. n \in Nat
    BY CallsAssumption
  <2> QED BY <1>1, <1>3, <1>4, <2>1, ReadNKept
<1>5. CASE Use(t, NextItem(call[t]))
  BY <1>1, <1>3, <1>5, NextItemKept
<1>6. ASSUME NEW pos \in SeekOffsets, Use(t, SeekTo(call[t], pos)) PROVE Inductive'
  BY <1>1, <1>3, <1>6, SeekToKept
<1> QED BY <1>4, <1>5, <1>6 DEF UseDecoder

\* A decoder is dropped.
LEMMA CloseDecoderOK ==
  ASSUME Inductive, NEW t \in Threads, CloseDecoder(t)
  PROVE  Inductive'
<1>1. Becomes(t, Idle) /\ UNCHANGED <<files, stores, root, holographic, log>>
  BY DEF CloseDecoder
<1>2. nextId' \in Nat \ {0} /\ nextId <= nextId'
  BY <1>1 DEF stores, Inductive, Typed
<1> QED BY <1>1, <1>2, EndedOK, QuietStep DEF stores

\* enable_holographic_mode, while nothing runs.
LEMMA EnableHolographicOK == Inductive /\ EnableHolographic => Inductive'
<1> SUFFICES ASSUME Inductive, EnableHolographic PROVE Inductive'
  OBVIOUS
<1>1. /\ holographic' = TRUE /\ \A t \in Threads : Free(t)
      /\ files' = files /\ root' = root /\ call' = call /\ log' = log
      /\ store' = store /\ corr' = corr /\ nextId' = nextId
      /\ storeVersion' = storeVersion /\ corrVersion' = corrVersion
  BY DEF EnableHolographic, stores
<1>2. Typed'
  BY <1>1 DEF Inductive, Typed
<1>3. Fresh'
  BY <1>1 DEF Inductive, Fresh, Owned
<1>4. CallsOK'
  <2>1. ASSUME NEW t \in Threads PROVE CallOK(call[t], TRUE, store, corr, log, root)
    <3>1. CallOK(call[t], holographic, store, corr, log, root)
      BY DEF Inductive, CallsOK
    <3>2. call[t].pc \notin WritePCs
      BY <1>1 DEF Free, WritePCs
    <3> QED BY <3>1, <3>2 DEF CallOK
  <2> QED BY <1>1, <2>1 DEF CallsOK
<1>5. FilesHold'
  BY <1>1 DEF Inductive, FilesHold
<1> QED BY <1>2, <1>3, <1>4, <1>5 DEF Inductive
-----------------------------------------------------------------------------
(* The specification *)

\* Before the first call.
LEMMA InitOK == Init => Inductive
<1> SUFFICES ASSUME Init PROVE Inductive
  OBVIOUS
<1>1. DOMAIN store = {} /\ DOMAIN corr = {} /\ root = {} /\ nextId = 1
  BY DEF Init
<1>2. \A t \in Threads : call[t] = Idle
  BY DEF Init
<1>3. Typed
  <2>1. <<>> \in Seq(Publications) /\ 1 \in Nat \ {0} /\ 0 \in Nat
    BY EmptySeq
  <2>2. \A t \in Threads : call[t].pc \in PCs
    BY <1>2 DEF Idle, PCs
  <2> QED BY <1>1, <2>1, <2>2 DEF Init, Typed
<1>4. Fresh
  BY <1>2 DEF Fresh, Owned, Idle
<1>5. CallsOK
  BY <1>2, EndedOK DEF CallsOK
<1>6. FilesHold
  BY DEF Init, FilesHold
<1> QED BY <1>3, <1>4, <1>5, <1>6 DEF Inductive

\* Every step.
LEMMA NextOK == Inductive /\ [Next]_vars => Inductive'
<1> SUFFICES ASSUME Inductive, [Next]_vars PROVE Inductive'
  OBVIOUS
<1>1. CASE UNCHANGED vars
  <2>1. /\ files' = files /\ root' = root /\ call' = call /\ log' = log /\ holographic' = holographic
        /\ store' = store /\ corr' = corr /\ nextId' = nextId
        /\ storeVersion' = storeVersion /\ corrVersion' = corrVersion
    BY <1>1 DEF vars, stores
  <2>2. Typed' /\ Fresh' /\ FilesHold' /\ CallsOK'
    BY <2>1 DEF Inductive, Typed, Fresh, Owned, FilesHold, CallsOK
  <2> QED BY <2>2 DEF Inductive
<1>2. CASE EnableHolographic
  BY <1>2, EnableHolographicOK
<1>3. ASSUME NEW t \in Threads, Start(t) PROVE Inductive'
  <2>1. PICK p \in Paths :
          \/ \E data \in Contents : \E v \in Expectations(p) :
               \/ \E asked \in AskedSizes, zip \in BOOLEAN : Build(t, p, data, v, asked, zip)
               \/ \E size \in EntropySizes : WriteLarge(t, p, data, v, size)
               \/ WriteCompressed(t, p, data, v)
               \/ WriteHolographic(t, p, data, v)
          \/ \E v \in 0..Len(log[p]) : Delete(t, p, v)
          \/ \E kind \in {"read_file", "read_holographic"} : StartRead(t, kind, p, 0, 0)
          \/ \E from \in SeekOffsets : StartRead(t, "read_range", p, from, DefaultSize)
          \/ \E pos \in SeekOffsets : OpenDecoder(t, p, pos)
    BY <1>3 DEF Start
  <2>2. ASSUME NEW data \in Contents, NEW v \in Expectations(p),
               NEW asked \in AskedSizes, NEW zip \in BOOLEAN, Build(t, p, data, v, asked, zip)
        PROVE  Inductive'
    BY <2>2, BuildOK
  <2>3. ASSUME NEW data \in Contents, NEW v \in Expectations(p), NEW size \in EntropySizes,
               WriteLarge(t, p, data, v, size)
        PROVE  Inductive'
    BY <2>3, WriteLargeOK
  <2>4. ASSUME NEW data \in Contents, NEW v \in Expectations(p), WriteCompressed(t, p, data, v)
        PROVE  Inductive'
    <3>1. DefaultSize \in Nat \ {0} /\ (p \in Compressible) \in BOOLEAN
      BY SizesAssumption
    <3> QED BY <2>4, <3>1, StartWriteOK DEF WriteCompressed
  <2>5. ASSUME NEW data \in Contents, NEW v \in Expectations(p), WriteHolographic(t, p, data, v)
        PROVE  Inductive'
    <3>1. ReversibleSize \in Nat \ {0} /\ FALSE \in BOOLEAN
      BY SizesAssumption
    <3> QED BY <2>5, <3>1, StartWriteOK DEF WriteHolographic
  <2>6. ASSUME NEW v \in 0..Len(log[p]), Delete(t, p, v) PROVE Inductive'
    BY <2>6, DeleteOK
  <2>7. ASSUME NEW kind \in ReadKinds, NEW from \in Nat, NEW n \in Nat, StartRead(t, kind, p, from, n)
        PROVE  Inductive'
    BY <2>7, StartReadOK
  <2>8. ASSUME NEW pos \in SeekOffsets, OpenDecoder(t, p, pos) PROVE Inductive'
    BY <2>8, OpenDecoderOK
  <2>9. ASSUME NEW kind \in {"read_file", "read_holographic"}, StartRead(t, kind, p, 0, 0)
        PROVE  Inductive'
    <3>1. kind \in ReadKinds /\ 0 \in Nat
      BY DEF ReadKinds
    <3> QED BY <2>7, <2>9, <3>1
  <2>10. ASSUME NEW from \in SeekOffsets, StartRead(t, "read_range", p, from, DefaultSize)
         PROVE  Inductive'
    <3>1. "read_range" \in ReadKinds /\ from \in Nat /\ DefaultSize \in Nat
      BY CallsAssumption, SizesAssumption DEF ReadKinds
    <3> QED BY <2>7, <2>10, <3>1
  <2> HIDE <2>7
  <2> QED BY <2>1, <2>2, <2>3, <2>4, <2>5, <2>6, <2>8, <2>9, <2>10
<1>4. ASSUME NEW t \in Threads, Write(t) PROVE Inductive'
  <2>1. ASSUME NEW n \in Pieces, Feed(t, n) PROVE Inductive'
    BY <2>1, FeedOK
  <2>2. CASE Finalize(t)
    BY <2>2, FinalizeOK
  <2>3. CASE Prepare(t)
    BY <2>3, PrepareOK
  <2>4. CASE InsertChunks(t)
    BY <2>4, InsertChunksOK
  <2>5. CASE ReadCorrVersion(t)
    BY <2>5, ReadCorrVersionOK
  <2>6. CASE InsertCorrections(t)
    BY <2>6, InsertCorrectionsOK
  <2>7. CASE Publish(t)
    BY <2>7, PublishOK
  <2>8. CASE Bundle(t)
    BY <2>8, BundleOK
  <2> QED BY <1>4, <2>1, <2>2, <2>3, <2>4, <2>5, <2>6, <2>7, <2>8 DEF Write
<1>5. ASSUME NEW t \in Threads, ReadChunks(t) PROVE Inductive'
  BY <1>5, ReadChunksOK
<1>6. ASSUME NEW t \in Threads, UseDecoder(t) PROVE Inductive'
  BY <1>6, UseDecoderOK
<1>7. ASSUME NEW t \in Threads, CloseDecoder(t) PROVE Inductive'
  BY <1>7, CloseDecoderOK
<1> QED BY <1>1, <1>2, <1>3, <1>4, <1>5, <1>6, <1>7 DEF Next

\* What a writer holds at each of its stages, and what the published files
\* rest on, is so in every reachable state.
THEOREM InductiveHolds == Spec => []Inductive
<1> QED BY InitOK, NextOK, PTL DEF Spec

\* ingest_bytes: in whatever pieces the data comes, the buffer and the pending
\* chunks are what was fed, and the buffer holds less than a chunk.
THEOREM NoByteLost == Spec => []IngestLossless
<1>1. Inductive => IngestLossless
  <2> SUFFICES ASSUME Inductive, NEW t \in Threads, call[t].pc = "feed"
               PROVE  LET c == call[t]
                          raw == [i \in DOMAIN c.pending |-> IF c.zip THEN Unwrap(c.pending[i]) ELSE c.pending[i]]
                      IN Len(c.buffer) < c.size /\ Join(raw) \o c.buffer = Slice(c.data, 0, c.fed)
    BY DEF IngestLossless
  <2> DEFINE c == call[t]
             raw == [i \in DOMAIN c.pending |-> IF c.zip THEN Unwrap(c.pending[i]) ELSE c.pending[i]]
  <2>1. WriterOK(c, holographic, store, corr, log) /\ c.data \in Seq(Bytes) /\ c \in WriteCall /\ c.pc = "feed"
    BY WriterHas DEF WritePCs
  <2>2. raw = Plain(c.zip, c.pending)
    BY DEF Plain
  <2> HIDE DEF c, raw
  <2>3. Len(c.buffer) < c.size /\ Join(raw) \o c.buffer = SubSeq(c.data, 1, c.fed) /\ c.fed <= Len(c.data)
    BY <2>1, <2>2 DEF WriterOK
  <2>4. Slice(c.data, 0, c.fed) = SubSeq(c.data, 1, c.fed)
    <3>1. c.fed \in Nat /\ Len(c.data) \in Nat
      BY <2>1, LenProperties DEF WriteCall
    <3>2. 0 + 1 = 1 /\ MinOf(0 + c.fed, Len(c.data)) = c.fed
      BY <2>3, <3>1 DEF MinOf
    <3> QED BY <3>2 DEF Slice
  <2> QED BY <2>3, <2>4 DEF c, raw
<1> QED BY <1>1, InductiveHolds, PTL

\* The writer that gets Ok(version) is the one that was published under it.
THEOREM AnswersAreInForce == Spec => []AnswersInForce
<1>1. Inductive => AnswersInForce
  <2> SUFFICES ASSUME Inductive, NEW t \in Threads, call[t].pc = "ok", "version" \in DOMAIN call[t]
               PROVE  LET c == call[t]
                          was == log[c.path][c.version + 1]
                      IN /\ c.version < Len(log[c.path])
                         /\ was.content = c.data /\ was.chunks = c.ids /\ ~was.deleted
                         /\ ToSet(c.ids) \subseteq root
    BY DEF AnswersInForce
  <2> DEFINE c == call[t]
  <2>1. AnswerOK(c, log, root)
    BY DEF Inductive, CallsOK, CallOK
  <2> HIDE DEF c
  <2>2. c.path \in Paths /\ c.version \in Nat /\ Len(log[c.path]) \in Nat
    BY <2>1, LenProperties DEF AnswerOK, Inductive, Typed
  <2>3. c.version < Len(log[c.path])
    BY <2>1, <2>2 DEF AnswerOK, InLog
  <2> QED BY <2>1, <2>3 DEF AnswerOK, InLog, c
<1> QED BY <1>1, InductiveHolds, PTL

\* finalize: whoever finds an entry in the manifest finds all its bytes.
THEOREM PublishedIsWhole == Spec => []PublishedWhole
<1>1. Inductive => TypeOK
  <2> SUFFICES ASSUME Inductive PROVE TypeOK
    OBVIOUS
  <2>1. Typed /\ FilesHold
    BY DEF Inductive
  <2>2. \A p \in Paths : files[p] # None => files[p] \in Entry
    BY <2>1 DEF Typed
  <2>3. \A p \in Paths : Len(log[p]) = IF files[p] = None THEN 0 ELSE files[p].version + 1
    BY <2>1, EmptySeq DEF FilesHold
  <2> QED BY <2>1, <2>2, <2>3 DEF Typed, TypeOK
<1>2. ASSUME Inductive, NEW p \in Paths, files[p] # None, ~files[p].deleted
      PROVE  LET e == files[p]
                 bytes(i) == LET id == e.chunks[i]
                                 all == Corrected(id, Decode(store[id], e.format, Size(id)))
                             IN IF e.zip THEN Unwrap(all) ELSE all
             IN Here(e) /\ Join([i \in DOMAIN e.chunks |-> bytes(i)]) = Last(log[p]).content
  <2> DEFINE e == files[p]
             all(i) == Corrected(e.chunks[i], Decode(store[e.chunks[i]], e.format, Size(e.chunks[i])))
             f == [i \in DOMAIN e.chunks |-> IF e.zip THEN Unwrap(all(i)) ELSE all(i)]
             content == Last(log[p]).content
  <2>1. EntryHolds(e, content, store, corr)
    BY <1>2 DEF Inductive, FilesHold
  <2>2. e \in Entry
    BY <1>2 DEF Inductive, Typed
  <2> HIDE DEF e, content
  <2>3. Here(e)
    BY <2>1 DEF EntryHolds, ChunksHeld, Here
  <2>4. [i \in DOMAIN e.chunks |-> all(i)] = BytesOf(e, store)
    BY <2>1, <2>2, ChunksDecoded DEF EntryHolds
  <2>5. f = Plain(e.zip, BytesOf(e, store))
    <3> HIDE DEF all
    <3>1. DOMAIN [i \in DOMAIN e.chunks |-> all(i)] = DOMAIN e.chunks
          /\ \A i \in DOMAIN e.chunks : [j \in DOMAIN e.chunks |-> all(j)][i] = all(i)
      OBVIOUS
    <3>2. DOMAIN BytesOf(e, store) = DOMAIN e.chunks
          /\ \A i \in DOMAIN e.chunks : BytesOf(e, store)[i] = all(i)
      BY <2>4, <3>1
    <3> QED BY <3>2 DEF Plain
  <2>6. Join(f) = content
    BY <2>1, <2>5 DEF EntryHolds
  <2> QED BY <2>3, <2>6 DEF e, content
<1>3. Inductive => PublishedWhole
  BY <1>1, <1>2 DEF PublishedWhole
<1> QED BY <1>3, InductiveHolds, PTL

\* read_file, read_range and read_file_holographic: a reader that is made for
\* the file it finds returns what was published under the version it read.
THEOREM ReadersAreExact == Spec => []ReadersExact
<1>1. Inductive => ReadersExact
  <2> SUFFICES ASSUME Inductive, NEW t \in Threads, call[t].pc = "ok", "entry" \in DOMAIN call[t],
                      MadeFor(call[t].kind, call[t].entry)
               PROVE  LET c == call[t]
                          was == ContentOf(c.path, c.entry)
                      IN  c.data = IF c.kind = "read_range" THEN Slice(was, c.from, c.n) ELSE was
    BY DEF ReadersExact
  <2> DEFINE c == call[t]
             e == c.entry
             cs == BytesOf(e, store)
             was == ContentOf(c.path, e)
  <2>1. ReaderHas(c, store, corr, log) /\ RequestOK(c) /\ ResultOK(c, store, log)
    BY DEF Inductive, CallsOK, CallOK
  <2>2. MadeFor(c.kind, e)
    OBVIOUS
  <2> HIDE DEF c
  <2>3. e \in Entry /\ ChunksHeld(e, store, corr)
    BY <2>1 DEF ReaderHas, EntryHolds
  <2>4. c.kind \in ReadKinds
    BY <2>1 DEF RequestOK
  <2> HIDE DEF e
  <2>5. ChunksOf(e, cs, Len(e.chunks))
    BY <2>3, EntryChunks
  <2>6. cs = [i \in DOMAIN e.chunks |-> store[e.chunks[i]].bytes]
    BY DEF BytesOf
  <2> HIDE DEF cs
  <2>7. \A size : Uniform(e, size) <=> Even(cs, size)
    BY <2>5, UniformIsEven
  <2>8. Suits(c.kind, e, cs)
    BY <2>2, <2>4, <2>6, <2>7 DEF MadeFor, Suits, ReadKinds
  <2>9. was = ContentIn(log, c.path, e)
    BY DEF ContentOf, ContentIn
  <2>10. c.data = IF c.kind = "read_range" THEN Slice(was, c.from, c.n) ELSE was
    BY <2>1, <2>8, <2>9 DEF ResultOK, e, cs
  <2> QED BY <2>10 DEF c, e, was
<1> QED BY <1>1, InductiveHolds, PTL

\* StreamingDecoder: a decoder of an uncompressed file hands out the bytes of
\* the version it was opened on that follow its position, in order and without
\* a gap, and runs out of chunks only at the end of the file.
THEOREM DecodersAreExact == Spec => []DecoderExact
<1>1. Inductive => DecoderExact
  <2> SUFFICES ASSUME Inductive, NEW t \in Threads, call[t].pc = "decode", ~call[t].entry.zip,
                      call[t].exact, call[t].whole
               PROVE  Follows(call[t])
    BY DEF DecoderExact
  <2> DEFINE d == call[t]
             e == d.entry
             cs == BytesOf(e, store)
             J == Join(cs)
             u == UpTo(cs)
             n == Len(cs)
  <2>1. Sound(d)
    BY DEF Inductive, CallsOK, CallOK, Sound
  <2>2. ~d.entry.zip /\ d.exact /\ d.whole
    OBVIOUS
  <2> HIDE DEF d
  <2>3. d \in DecodeCall /\ ReaderHas(d, store, corr, log) /\ InStep(d, cs)
    BY <2>1, <2>2 DEF Sound, DecoderOK
  <2>4. /\ ChunksOf(e, cs, Len(e.chunks)) /\ cs \in Seq(Chunk) /\ e.size = Len(J)
        /\ Counters(d) /\ d.out \in Chunk /\ d.chunk \in Chunk
    BY <2>2, <2>3, DecoderHas
  <2>5. ContentOf(d.path, e) = J
    <3>1. e \in Entry /\ EntryHolds(e, ContentIn(log, d.path, e), store, corr)
      BY <2>3 DEF ReaderHas
    <3> HIDE DEF e
    <3>2. Join(BytesOf(e, store)) = ContentIn(log, d.path, e)
      BY <2>2, <3>1, EntryContent DEF e
    <3> QED BY <3>2 DEF ContentOf, ContentIn
  <2>6. d.broken = FALSE
    BY <2>3 DEF DecodeCall
  <2>7. n = Len(e.chunks) /\ n \in Nat
    BY <2>4 DEF ChunksOf
  <2> HIDE DEF e, cs
  <2>8. Collects(Bytes \cup {Envelope}, cs, u, n)
    BY <2>4, UpToJoins DEF Chunk
  <2> HIDE DEF u, n
  <2> DEFINE i == d.idx
             at == d.at
             k == Len(d.chunk)
             total == d.total
             start == d.start
             o == Len(d.out)
             w == Len(u[i])
             z == Len(J)
  <2>9. i \in Nat /\ at \in Nat /\ total \in Nat /\ start \in Nat /\ k \in Nat /\ o \in Nat
    BY <2>4, LenProperties DEF Counters, Chunk
  <2>10. /\ i <= n /\ at <= k /\ total + k = w + at /\ total = start + o
         /\ d.out = SubSeq(J, start + 1, total)
    BY <2>3 DEF InStep, u, n
  <2>11. w \in Nat /\ z \in Nat /\ w <= z /\ (i = n => w = z)
    <3>1. i \in 0..n
      <4> HIDE DEF i, at, k, total, start, o, w, z
      <4> QED BY <2>7, <2>9, <2>10
    <3>2. Begins(u[i], J)
      BY <2>4, <2>8, <3>1, UpToGrows DEF Chunk
    <3>3. J = u[n]
      BY <2>8 DEF Collects
    <3> QED BY <3>2, <3>3 DEF Begins
  <2> HIDE DEF i, at, k, total, start, o, w, z
  <2>12. total <= z /\ start + o = total /\ MinOf(start + o, z) = total
    <3>1. total <= z /\ start + o = total
      BY <2>9, <2>10, <2>11
    <3> QED BY <2>9, <2>11, <3>1 DEF MinOf
  <2>13. d.out = Slice(J, start, o)
    BY <2>10, <2>12 DEF Slice, z
  <2>14. i >= n /\ at >= k => total >= z
    BY <2>7, <2>9, <2>10, <2>11
  <2>15. d.total = d.start + Len(d.out)
    BY <2>12 DEF total, start, o
  <2>16. NoMore(d) /\ d.at >= Len(d.chunk) => Exhausted(d)
    BY <2>4, <2>7, <2>14 DEF NoMore, Exhausted, i, n, at, k, total, z, e
  <2>17. Follows(d)
    BY <2>5, <2>6, <2>13, <2>15, <2>16 DEF Follows, e, start, o
  <2> QED BY <2>17 DEF d
<1> QED BY <1>1, InductiveHolds, PTL
=============================================================================
