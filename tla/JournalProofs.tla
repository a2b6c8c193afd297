--------------------------- MODULE JournalProofs ----------------------------
(***************************************************************************)
(* What Journal promises of the log, for every number of writers,          *)
(* transactions, checkpoints, I/O errors and power failures, and every     *)
(* limit of the group-commit queue.                                        *)
(*                                                                         *)
(* A record is written once (OnceInTheFile), from the invariant Unique: it *)
(* is in one place of the file and of the disk, or in one place on its way *)
(* there.  Outside Relaxed mode the file is in real-time order             *)
(* (FileIsInOrder), from Ordered: what is on its way to the file is not    *)
(* acknowledged, and what is acknowledged lies behind the handle.  An      *)
(* acknowledged record stays readable on the disk (AckedStayReadable),     *)
(* from Solid: there is no hole before the handle, and no part of the disk *)
(* up to a synced record differs from the file; one failure, SeekFails,    *)
(* breaks it.                                                              *)
(***************************************************************************)
EXTENDS Journal, SequenceTheorems, TLAPS

\* The same record is at the same place in both.
Aligned(s, t) == \A i \in DOMAIN s, j \in DOMAIN t : s[i] = t[j] /\ s[i] # Bad => i = j
-----------------------------------------------------------------------------
(* Sequences of records *)

\* The elements of a sequence.
LEMMA SetOfSeq ==
  ASSUME NEW S, NEW s \in Seq(S)
  PROVE  /\ DOMAIN s = 1..Len(s) /\ Len(s) \in Nat
         /\ ToSet(s) \subseteq S
         /\ \A i \in DOMAIN s : s[i] \in ToSet(s)
         /\ \A r \in ToSet(s) : \E i \in DOMAIN s : s[i] = r
<1>1. DOMAIN s = 1..Len(s) /\ Len(s) \in Nat
  BY LenProperties
<1>2. \A i \in 1..Len(s) : s[i] \in S
  BY ElementOfSeq
<1> QED BY <1>1, <1>2 DEF ToSet

\* A record is queued.
LEMMA Appended ==
  ASSUME NEW s \in Seq(Op), NEW r \in Op
  PROVE  /\ Append(s, r) \in Seq(Op)
         /\ ToSet(Append(s, r)) = ToSet(s) \cup {r}
         /\ Aligned(s, s) /\ r \notin ToSet(s) => Aligned(Append(s, r), Append(s, r))
<1> DEFINE t == Append(s, r)
<1>1. /\ t \in Seq(Op) /\ Len(t) = Len(s) + 1 /\ Len(s) \in Nat
      /\ \A i \in 1..Len(s) : t[i] = s[i]
      /\ t[Len(s) + 1] = r
  BY AppendProperties, LenProperties
<1> HIDE DEF t
<1>2. DOMAIN t = DOMAIN s \cup {Len(s) + 1} /\ Len(s) + 1 \notin DOMAIN s
      /\ \A i \in DOMAIN s : t[i] = s[i]
  <2>1. DOMAIN t = 1..(Len(s) + 1) /\ DOMAIN s = 1..Len(s)
    BY <1>1, LenProperties
  <2> QED BY <1>1, <2>1
<1>3. ToSet(t) = ToSet(s) \cup {r}
  BY <1>1, <1>2 DEF ToSet
<1>4. Aligned(s, s) /\ r \notin ToSet(s) => Aligned(t, t)
  BY <1>1, <1>2 DEF Aligned, ToSet
<1> QED BY <1>1, <1>3, <1>4 DEF t

\* The buffer is followed by a batch.
LEMMA Concatenated ==
  ASSUME NEW s \in Seq(Op), NEW t \in Seq(Op)
  PROVE  /\ s \o t \in Seq(Op)
         /\ ToSet(s \o t) = ToSet(s) \cup ToSet(t)
         /\ Aligned(s, s) /\ Aligned(t, t) /\ ToSet(s) \cap ToSet(t) = {} => Aligned(s \o t, s \o t)
<1> DEFINE u == s \o t
<1>1. /\ u \in Seq(Op) /\ Len(u) = Len(s) + Len(t) /\ Len(s) \in Nat /\ Len(t) \in Nat
      /\ \A i \in 1..Len(s) + Len(t) : u[i] = IF i <= Len(s) THEN s[i] ELSE t[i - Len(s)]
  BY ConcatProperties, LenProperties
<1>2. DOMAIN u = 1..Len(s) + Len(t) /\ DOMAIN s = 1..Len(s) /\ DOMAIN t = 1..Len(t)
  BY <1>1, LenProperties
<1> HIDE DEF u
<1>3. ASSUME NEW i \in DOMAIN u
      PROVE  \/ i \in DOMAIN s /\ u[i] = s[i]
             \/ i \notin DOMAIN s /\ i - Len(s) \in DOMAIN t /\ u[i] = t[i - Len(s)]
  BY <1>1, <1>2, <1>3
<1>4. \A i \in DOMAIN s : i \in DOMAIN u /\ u[i] = s[i]
  BY <1>1, <1>2
<1>5. ASSUME NEW i \in DOMAIN t PROVE \E k \in DOMAIN u : u[k] = t[i]
  <2>1. i + Len(s) \in DOMAIN u /\ u[i + Len(s)] = t[i]
    BY <1>1, <1>2, <1>5
  <2> QED BY <2>1
<1>6. ToSet(u) = ToSet(s) \cup ToSet(t)
  BY <1>3, <1>4, <1>5 DEF ToSet
<1>7. ASSUME Aligned(s, s), Aligned(t, t), ToSet(s) \cap ToSet(t) = {} PROVE Aligned(u, u)
  <2> SUFFICES ASSUME NEW i \in DOMAIN u, NEW j \in DOMAIN u, u[i] = u[j], u[i] # Bad PROVE i = j
    BY DEF Aligned
  <2>1. \A k \in DOMAIN s, l \in DOMAIN t : s[k] # t[l]
    BY <1>7 DEF ToSet
  <2>2. CASE i \in DOMAIN s /\ j \in DOMAIN s
    BY <1>4, <1>7, <2>2 DEF Aligned
  <2>3. CASE i \notin DOMAIN s /\ j \notin DOMAIN s
    <3>1. i - Len(s) = j - Len(s)
      BY <1>3, <1>7, <2>3 DEF Aligned
    <3> QED BY <1>1, <1>2, <3>1
  <2> QED BY <1>3, <2>1, <2>2, <2>3
<1> QED BY <1>1, <1>6, <1>7 DEF u

\* The first k records of s are written, the others stay.
Parts(s, k, a, b) == a = SubSeq(s, 1, k) /\ b = SubSeq(s, k + 1, Len(s))

\* The first part has k records, the parts are disjoint where the whole has no
\* record twice.
LEMMA Split ==
  ASSUME NEW s \in Seq(Op), NEW k \in 0..Len(s), NEW a, NEW b, Parts(s, k, a, b)
  PROVE  /\ a \in Seq(Op) /\ b \in Seq(Op) /\ Len(a) = k
         /\ ToSet(a) \subseteq ToSet(s) /\ ToSet(b) \subseteq ToSet(s)
         /\ Aligned(s, s) => Aligned(a, a) /\ Aligned(b, b) /\ ToSet(a) \cap ToSet(b) = {}
<1> USE DEF Parts
<1>1. Len(s) \in Nat /\ k \in Nat /\ k <= Len(s) /\ DOMAIN s = 1..Len(s)
      /\ \A i \in 1..Len(s) : s[i] \in Op
  BY LenProperties, ElementOfSeq
<1>2. /\ a \in Seq(Op) /\ Len(a) = k /\ DOMAIN a = 1..k
      /\ \A i \in DOMAIN a : a[i] = s[i] /\ i \in DOMAIN s
  <2>1. \A i \in 1..k : s[i] \in Op
    BY <1>1
  <2>2. a \in Seq(Op) /\ Len(a) = (IF 1 <= k THEN k - 1 + 1 ELSE 0)
        /\ \A i \in 1..k - 1 + 1 : a[i] = s[1 + i - 1]
    BY <1>1, <2>1, SubSeqProperties
  <2>3. Len(a) = k /\ DOMAIN a = 1..k
    BY <1>1, <2>2, LenProperties
  <2>4. \A i \in 1..k : i \in 1..(k - 1 + 1) /\ 1 + i - 1 = i /\ i \in 1..Len(s)
    BY <1>1
  <2> QED BY <1>1, <2>2, <2>3, <2>4
<1>3. /\ b \in Seq(Op)
      /\ \A i \in DOMAIN b : b[i] = s[k + i] /\ k + i \in DOMAIN s /\ i \in Nat \ {0}
  <2>1. \A i \in (k + 1)..Len(s) : s[i] \in Op
    BY <1>1
  <2>2. b \in Seq(Op) /\ Len(b) = (IF k + 1 <= Len(s) THEN Len(s) - (k + 1) + 1 ELSE 0)
        /\ \A i \in 1..Len(s) - (k + 1) + 1 : b[i] = s[(k + 1) + i - 1]
    BY <1>1, <2>1, SubSeqProperties
  <2>3. Len(b) = Len(s) - k /\ DOMAIN b = 1..(Len(s) - k)
    BY <1>1, <2>2, LenProperties
  <2>4. \A i \in 1..(Len(s) - k) :
          i \in 1..(Len(s) - (k + 1) + 1) /\ (k + 1) + i - 1 = k + i /\ k + i \in 1..Len(s) /\ i \in Nat \ {0}
    BY <1>1
  <2> QED BY <1>1, <2>2, <2>3, <2>4
<1>4. ToSet(a) \subseteq ToSet(s) /\ ToSet(b) \subseteq ToSet(s)
  BY <1>2, <1>3 DEF ToSet
<1>5. ASSUME Aligned(s, s) PROVE Aligned(a, a) /\ Aligned(b, b) /\ ToSet(a) \cap ToSet(b) = {}
  <2>1. Aligned(a, a)
    BY <1>2, <1>5 DEF Aligned
  <2>2. Aligned(b, b)
    <3> SUFFICES ASSUME NEW i \in DOMAIN b, NEW j \in DOMAIN b, b[i] = b[j], b[i] # Bad PROVE i = j
      BY DEF Aligned
    <3>1. k + i = k + j
      BY <1>3, <1>5 DEF Aligned
    <3> QED BY <1>1, <1>3, <3>1
  <2>3. ASSUME NEW i \in DOMAIN a, NEW j \in DOMAIN b, a[i] = b[j] PROVE FALSE
    <3>1. i \in 1..k /\ j \in Nat \ {0} /\ i # k + j
      BY <1>1, <1>2, <1>3, <2>3
    <3>2. s[i] = s[k + j] /\ i \in DOMAIN s /\ k + j \in DOMAIN s
      BY <1>2, <1>3, <2>3
    <3>3. s[i] # Bad
      BY <1>1, <3>2 DEF Op, Bad
    <3> QED BY <1>5, <3>1, <3>2, <3>3 DEF Aligned
  <2> QED BY <2>1, <2>2, <2>3 DEF ToSet
<1> QED BY <1>2, <1>3, <1>4, <1>5

\* What a write leaves in the file.
LEMMA PutCells ==
  ASSUME NEW cells \in Seq(Op), file \in Seq(0..MaxOps), pos \in Nat, NEW f, f = Put(cells)
  PROVE  /\ f \in Seq(0..MaxOps)
         /\ DOMAIN file \subseteq DOMAIN f
         /\ \A i \in DOMAIN file : i <= pos => f[i] = file[i]
         /\ \A i \in DOMAIN f : \/ i \in DOMAIN file /\ f[i] = file[i]
                                \/ f[i] = Bad
                                \/ i > pos /\ i - pos \in DOMAIN cells /\ f[i] = cells[i - pos]
         /\ \A i \in DOMAIN cells : pos + i \in DOMAIN f /\ f[pos + i] = cells[i]
<1>1. /\ Len(cells) \in Nat /\ Len(file) \in Nat
      /\ DOMAIN cells = 1..Len(cells) /\ DOMAIN file = 1..Len(file)
      /\ \A i \in DOMAIN cells : cells[i] \in Op
      /\ \A i \in DOMAIN file : file[i] \in 0..MaxOps
  BY LenProperties, ElementOfSeq
<1>2. CASE cells = <<>>
  BY <1>1, <1>2 DEF Put
<1>3. CASE cells # <<>>
  <2> DEFINE n == IF pos + Len(cells) > Len(file) THEN pos + Len(cells) ELSE Len(file)
             At(i) == IF i \in pos + 1..pos + Len(cells) THEN cells[i - pos]
                      ELSE IF i <= Len(file) THEN file[i] ELSE Bad
  <2>1. f = [i \in 1..n |-> At(i)]
    BY <1>3 DEF Put
  <2>2. n \in Nat /\ n >= Len(file) /\ n >= pos + Len(cells)
    BY <1>1
  <2>3. \A i \in 1..n : /\ i \in pos + 1..pos + Len(cells) => i > pos /\ i - pos \in 1..Len(cells)
                        /\ i <= Len(file) => i \in 1..Len(file)
    BY <1>1, <2>2
  <2>4. 0 \in 0..MaxOps /\ Op \subseteq 0..MaxOps
    BY LimitAssumption DEF Op
  <2>5. \A i \in 1..n : At(i) \in 0..MaxOps
    BY <1>1, <2>3, <2>4 DEF Bad
  <2>6. \A i \in 1..Len(file) : i \in 1..n /\ i <= Len(file) /\ (i <= pos => i \notin pos + 1..pos + Len(cells))
    BY <1>1, <2>2
  <2>7. \A i \in 1..Len(cells) :
          pos + i \in 1..n /\ pos + i \in pos + 1..pos + Len(cells) /\ (pos + i) - pos = i
    BY <1>1, <2>2
  <2> HIDE DEF n
  <2>8. f \in Seq(0..MaxOps) /\ DOMAIN f = 1..n /\ \A i \in 1..n : f[i] = At(i)
    BY <2>1, <2>2, <2>5, SeqDef
  <2> QED BY <1>1, <2>3, <2>6, <2>7, <2>8
<1> QED BY <1>2, <1>3
-----------------------------------------------------------------------------
(* Where the threads are *)

\* The types of the variables.
Types ==
  /\ mode \in Modes /\ mode \in AllModes /\ mounted \in BOOLEAN /\ open \in BOOLEAN
  /\ pending \in Seq(Op) /\ buffer \in Seq(Op) /\ pos \in Nat
  /\ file \in Seq(0..MaxOps) /\ durable \in Seq(0..MaxOps)
  /\ batch \in [Procs -> Seq(Op)]
  /\ rec \in [Writers -> 0..MaxOps]
  /\ ops \in 0..MaxOps
  /\ acked \subseteq Op /\ signalled \subseteq Op /\ retired \subseteq Op
  /\ before \in Seq(SUBSET Op) /\ Len(before) = ops
  /\ lock \in Procs \cup {NoOne} /\ after \in {"truncate", "join"}

\* The places of a writer in each mode.
WriterOK(w) ==
  /\ pc[w] \in {"idle", "enqueue", "append", "drain", "wait", "write", "sync", "signal"}
  /\ pc[w] # "idle" => rec[w] \in 1..ops
  /\ mode = "immediate" =>
       pc[w] \in {"idle", "write", "sync", "signal"} /\ (pc[w] # "idle" => batch[w] = <<rec[w]>>)
  /\ mode = "relaxed" => pc[w] \in {"idle", "append"}
  /\ mode = "group" => pc[w] # "append"

\* The places of the threads.
Places ==
  /\ pc = [t \in Procs |-> pc[t]]
  /\ \A w \in Writers : WriterOK(w)
  /\ pc[Flusher] \in {"idle", "drain", "write", "sync", "signal"}
  /\ pc[Owner] \in {"closed", "recover", "failed", "idle", "drain", "write", "sync", "signal",
                    "truncate", "reseek", "join"}

\* The lock is held while a batch is synced and during a truncation.
Locking ==
  /\ \A t \in Procs : pc[t] \in {"sync", "reseek"} => lock = t
  /\ pc[Owner] = "reseek" => file = <<>>

\* Only the group mode queues; a queued record has a writer that waits for it.
Queueing ==
  /\ mode # "group" => /\ pending = <<>>
                       /\ \A t \in {Flusher, Owner} : pc[t] \notin {"write", "sync", "signal"}
  /\ \A r \in ToSet(pending) : \E w \in Writers : rec[w] = r /\ pc[w] \in {"wait", "drain"}

\* Nothing is queued or buffered until a recovery is over.
Recovering ==
  /\ ~mounted => /\ pending = <<>> /\ buffer = <<>> /\ pos = 0
                 /\ \A w \in Writers : pc[w] = "idle"
                 /\ pc[Flusher] \in {"idle", "drain"}
                 /\ pc[Owner] \in {"closed", "recover", "failed", "drain", "truncate", "reseek"}
                 /\ pc[Owner] = "drain" => after = "truncate"
  /\ mounted => pc[Owner] \notin {"recover", "failed"}

\* Where the threads are, and what that says of lock, queue and buffer.
Control == Places /\ Locking /\ Queueing /\ Recovering

\* The kinds of thread.
LEMMA Threads ==
  /\ Writers \subseteq Procs /\ Flusher \in Procs /\ Owner \in Procs
  /\ Flusher # Owner /\ Flusher \notin Writers /\ Owner \notin Writers /\ NoOne \notin Procs
  /\ \A t \in Procs : t \in Writers \/ t = Flusher \/ t = Owner
BY ThreadsAssumption DEF Procs

\* A thread goes on, the others stay.
LEMMA Gone ==
  ASSUME NEW t \in Procs, NEW place, pc = [u \in Procs |-> pc[u]], GoTo(t, place)
  PROVE  /\ pc' = [u \in Procs |-> pc'[u]] /\ pc'[t] = place
         /\ \A u \in Procs : u # t => pc'[u] = pc[u]
BY DEF GoTo

\* The disk after a power failure.
LEMMA OutcomesAre ==
  ASSUME Types, NEW f \in Outcomes
  PROVE  /\ f \in Seq(0..MaxOps)
         /\ \A i \in DOMAIN f : \/ i \in DOMAIN file /\ f[i] = file[i]
                                \/ i \in DOMAIN durable /\ f[i] = durable[i]
                                \/ f[i] = Bad
         /\ \A i \in DOMAIN file \cap DOMAIN durable :
              i \in DOMAIN f /\ (file[i] = durable[i] => f[i] = file[i])
<1> DEFINE Cells(i) == IF i <= Len(durable) /\ i <= Len(file) /\ durable[i] = file[i] THEN {file[i]}
                       ELSE (IF i <= Len(durable) THEN {durable[i]} ELSE {Bad}) \cup
                            (IF i <= Len(file) THEN {file[i]} ELSE {})
           lengths == IF Len(file) < Len(durable) THEN {Len(file), Len(durable)}
                      ELSE Len(durable)..Len(file)
<1>1. f \in UNION {{g \in [1..n -> 0..MaxOps] : \A i \in 1..n : g[i] \in Cells(i)} : n \in lengths}
  BY DEF Outcomes
<1>2. PICK n \in lengths : f \in [1..n -> 0..MaxOps] /\ \A i \in 1..n : f[i] \in Cells(i)
  BY <1>1
<1>3. /\ Len(file) \in Nat /\ Len(durable) \in Nat
      /\ DOMAIN file = 1..Len(file) /\ DOMAIN durable = 1..Len(durable)
  BY LenProperties DEF Types
<1>4. n \in Nat /\ (n >= Len(file) \/ n >= Len(durable))
  BY <1>3
<1>5. f \in Seq(0..MaxOps) /\ DOMAIN f = 1..n
  BY <1>2, <1>4, SeqDef
<1> HIDE DEF lengths
<1>6. ASSUME NEW i \in 1..n
      PROVE  /\ i <= Len(file) => i \in DOMAIN file
             /\ i <= Len(durable) => i \in DOMAIN durable
  BY <1>3, <1>4
<1>7. ASSUME NEW i \in DOMAIN file, i \in DOMAIN durable
      PROVE  i \in 1..n /\ i <= Len(file) /\ i <= Len(durable)
  BY <1>3, <1>4, <1>7
<1>8. \A i \in DOMAIN f : \/ i \in DOMAIN file /\ f[i] = file[i]
                          \/ i \in DOMAIN durable /\ f[i] = durable[i]
                          \/ f[i] = Bad
  BY <1>2, <1>5, <1>6
<1>9. \A i \in DOMAIN file \cap DOMAIN durable :
              i \in DOMAIN f /\ (file[i] = durable[i] => f[i] = file[i])
  BY <1>2, <1>5, <1>7
<1> QED BY <1>5, <1>8, <1>9

\* Each step keeps the types.
LEMMA TypesNext == ASSUME Types, Control, [Next]_vars PROVE Types'
<1>0. /\ \A w \in Writers : pc[w] # "idle" => rec[w] \in 1..ops
      /\ 1..ops \subseteq Op /\ ops \in Nat /\ <<>> \in Seq(Op) /\ <<>> \in Seq(0..MaxOps)
      /\ \A t \in Procs : batch[t] \in Seq(Op)
      /\ Writers \subseteq Procs /\ Owner \in Procs
  <2>1. \A w \in Writers : pc[w] # "idle" => rec[w] \in 1..ops
    BY DEF Control, Places, WriterOK
  <2>2. 1..ops \subseteq Op /\ ops \in Nat
    BY LimitAssumption DEF Types, Op
  <2> QED BY <2>1, <2>2, Threads, EmptySeq DEF Types
<1>1. ASSUME NEW cells \in Seq(Op), file' = Put(cells), pos' = pos + Len(cells)
      PROVE  file' \in Seq(0..MaxOps) /\ pos' \in Nat
  BY <1>1, PutCells, LenProperties DEF Types
<1>2. \A cells \in Seq(Op) : Put(cells) \in Seq(0..MaxOps)
  BY PutCells DEF Types
<1>3. ASSUME NEW w \in Writers, Submit(w) PROVE Types'
  <2>1. ops + 1 \in Op /\ ops + 1 \in 0..MaxOps /\ 1..ops \subseteq 1..(ops + 1) /\ ops' = ops + 1
    <3>1. ops < MaxOps /\ ops' = ops + 1
      BY <1>3 DEF Submit
    <3>2. ops \in 0..MaxOps /\ MaxOps \in Nat
      BY LimitAssumption DEF Types
    <3> QED BY <3>1, <3>2 DEF Op
  <2>2. acked \in SUBSET Op
    BY <1>0 DEF Types
  <2>3. before' \in Seq(SUBSET Op) /\ Len(before') = ops'
    BY <1>3, <2>1, <2>2, AppendProperties DEF Submit, Types
  <2>4. batch' \in [Procs -> Seq(Op)] /\ rec' \in [Writers -> 0..MaxOps]
    <3>1. (IF mode = "immediate" THEN <<ops + 1>> ELSE <<>>) \in Seq(Op)
      BY <1>0, <2>1
    <3> QED BY <1>3, <2>1, <3>1 DEF Submit, Types
  <2> QED BY <1>3, <2>1, <2>3, <2>4 DEF Submit, Types, disk, session
<1>4. ASSUME NEW w \in Writers, Answer(w), pc[w] # "idle" PROVE acked' \subseteq Op
  BY <1>0, <1>4 DEF Answer, Types
<1>5. ASSUME NEW w \in Writers, Enqueue(w) PROVE Types'
  <2>1. pending' \in Seq(Op)
    BY <1>0, <1>5, Appended DEF Enqueue, Types
  <2> QED BY <1>5, <2>1 DEF Enqueue, Types, disk, session, history
<1>6. ASSUME NEW w \in Writers, Wake(w) PROVE Types'
  BY <1>4, <1>6 DEF Wake, Types, disk, session
<1>7. ASSUME NEW w \in Writers, AppendRelaxed(w) PROVE Types'
  <2>1. acked' \subseteq Op /\ rec[w] \in Op
    BY <1>0, <1>4, <1>7 DEF AppendRelaxed
  <2>2. buffer' \in Seq(Op) /\ file' \in Seq(0..MaxOps) /\ pos' \in Nat
    <3>1. CASE buffer' = Append(buffer, rec[w]) /\ UNCHANGED <<file, pos>>
      BY <2>1, <3>1, AppendProperties DEF Types
    <3>2. CASE file' = Put(buffer) /\ pos' = pos + Len(buffer) /\ buffer' = <<rec[w]>>
      <4>1. <<rec[w]>> \in Seq(Op) /\ buffer \in Seq(Op)
        BY <2>1 DEF Types
      <4> QED BY <1>1, <3>2, <4>1
    <3> QED BY <1>7, <3>1, <3>2 DEF AppendRelaxed
  <2> QED BY <1>7, <2>1, <2>2 DEF AppendRelaxed, Types, session
<1>8. ASSUME NEW t \in Procs, Drain(t) PROVE Types'
  BY <1>0, <1>8 DEF Drain, Types, disk, session, history
<1>9. ASSUME NEW t \in Procs, WriteOut(t) PROVE Types'
  <2>1. buffer \o batch[t] \in Seq(Op)
    BY <1>0, ConcatProperties DEF Types
  <2> QED BY <1>0, <1>1, <1>9, <2>1 DEF WriteOut, Types, session, history
<1>10. ASSUME NEW t \in Procs, Sync(t) PROVE Types'
  BY <1>10 DEF Sync, Types, session, history
<1>11. ASSUME NEW t \in Procs, Fail(t) PROVE Types'
  <2>1. buffer' \in Seq(Op) /\ file' \in Seq(0..MaxOps) /\ pos' \in Nat
    <3> DEFINE all == buffer \o batch[t]
    <3>1. all \in Seq(Op)
      BY <1>0, ConcatProperties DEF Types
    <3>2. CASE \E k \in 0..Len(all) :
                 /\ file' = Put(SubSeq(all, 1, k)) /\ pos' = pos + k
                 /\ buffer' = SubSeq(all, k + 1, Len(all))
      <4>1. PICK k \in 0..Len(all) :
                 /\ file' = Put(SubSeq(all, 1, k)) /\ pos' = pos + k
                 /\ buffer' = SubSeq(all, k + 1, Len(all))
        BY <3>2
      <4> HIDE DEF all
      <4> DEFINE cells == SubSeq(all, 1, k)
      <4>2. Parts(all, k, cells, buffer') /\ file' = Put(cells)
        BY <4>1 DEF Parts
      <4> HIDE DEF cells
      <4>3. cells \in Seq(Op) /\ Len(cells) = k /\ buffer' \in Seq(Op)
        BY <3>1, <4>2, Split
      <4> QED BY <1>1, <4>1, <4>2, <4>3
    <3> QED BY <1>11, <3>2 DEF Fail, Types
  <2> QED BY <1>0, <1>11, <2>1 DEF Fail, Types, session
<1>12. ASSUME NEW t \in Procs, Signal(t) PROVE Types'
  <2>1. CASE mode = "immediate"
    <3>1. t \in Writers
      BY <1>12, <2>1, Threads DEF Signal, Control, Queueing
    <3> QED BY <1>0, <1>4, <1>12, <2>1, <3>1 DEF Signal, Types, disk, session
  <2>2. CASE mode # "immediate"
    <3>1. ToSet(batch[t]) \subseteq Op
      BY <1>0, SetOfSeq
    <3> QED BY <1>0, <1>12, <2>2, <3>1 DEF Signal, Types, disk, session
  <2> QED BY <2>1, <2>2
<1>13. ASSUME Open PROVE Types'
  BY <1>0, <1>2, <1>13 DEF Open, Types, history
<1>14. ASSUME Replay PROVE Types'
  <2>1. Bad \notin ToSet(file) => ToSet(file) \subseteq Op
    <3>1. ToSet(file) \subseteq 0..MaxOps
      BY SetOfSeq DEF Types
    <3>2. \A r \in 0..MaxOps : r # Bad => r \in Op
      BY LimitAssumption DEF Op, Bad
    <3> QED BY <3>1, <3>2
  <2> QED BY <1>14, <2>1 DEF Replay, Types, disk, session
<1>15. ASSUME Truncate PROVE Types'
  <2>1. ToSet(file) \ {Bad} \subseteq Op
    <3>1. ToSet(file) \subseteq 0..MaxOps
      BY SetOfSeq DEF Types
    <3>2. \A r \in 0..MaxOps : r # Bad => r \in Op
      BY LimitAssumption DEF Op, Bad
    <3> QED BY <3>1, <3>2
  <2> QED BY <1>0, <1>15, <2>1 DEF Truncate, Types, session
<1>16. ASSUME Reseek PROVE Types'
  BY <1>0, <1>2, <1>16 DEF Reseek, Types, history
<1>17. ASSUME CheckpointFails PROVE Types'
  <2>1. file' \in Seq(0..MaxOps) /\ buffer' \in Seq(Op) /\ pos' \in Nat
    <3>1. UNCHANGED <<file, buffer, pos>> \/ (file' = Put(buffer) /\ buffer' = <<>> /\ pos' = 0)
      BY <1>17 DEF CheckpointFails
    <3>2. Put(buffer) \in Seq(0..MaxOps) /\ buffer \in Seq(Op) /\ file \in Seq(0..MaxOps) /\ pos \in Nat
      BY <1>2 DEF Types
    <3>3. CASE UNCHANGED <<file, buffer, pos>>
      BY <3>2, <3>3
    <3>4. CASE file' = Put(buffer) /\ buffer' = <<>> /\ pos' = 0
      BY <1>0, <3>2, <3>4
    <3> QED BY <3>1, <3>3, <3>4
  <2>2. lock' = NoOne /\ UNCHANGED <<mode, session, pending, durable, rec, batch, after, signalled, ops,
                                    acked, before, retired>>
    BY <1>17 DEF CheckpointFails
  <2> QED BY <2>1, <2>2 DEF Types, session
<1>18. ASSUME PowerFailure PROVE Types'
  <2>1. \A f \in Outcomes : f \in Seq(0..MaxOps)
    BY OutcomesAre
  <2>2. Bad \in 0..MaxOps
    BY LimitAssumption DEF Bad
  <2> QED BY <1>0, <1>18, <2>1, <2>2 DEF PowerFailure, Types
<1>19. ASSUME Tick \/ Checkpoint \/ Close \/ Join \/ UNCHANGED vars PROVE Types'
  BY <1>19 DEF Tick, Checkpoint, Close, Join, Types, vars, disk, session, threads, history
<1> QED
  BY <1>3, <1>5, <1>6, <1>7, <1>8, <1>9, <1>10, <1>11, <1>12, <1>13, <1>14, <1>15, <1>16, <1>17,
     <1>18, <1>19 DEF Next, Runs, Flush

\* A thread that is in a call.
Calling(t) == t \in Procs /\ pc[t] \in {"write", "sync", "signal"}

\* What Control gives for a thread that is flushing.
LEMMA Flushing ==
  ASSUME Control, NEW t \in Procs, Calling(t)
  PROVE  mounted /\ mode # "relaxed" /\ (t \notin Writers => mode = "group")
<1>1. mounted
  BY Threads DEF Control, Recovering, Calling
<1>2. t \notin Writers => mode = "group"
  BY Threads DEF Control, Queueing, Calling
<1>3. t \in Writers => mode # "relaxed"
  BY DEF Control, Places, WriterOK, Calling
<1> QED BY <1>1, <1>2, <1>3

\* A step of thread t, which may start a call or end one.
LEMMA PlacesNext ==
  ASSUME Types, Places, NEW t \in Procs, NEW place, GoTo(t, place), UNCHANGED mode,
         ops' \in {ops, ops + 1}, \A u \in Procs : u # t => batch'[u] = batch[u],
         \A u \in Writers : u # t => rec'[u] = rec[u],
         t \in Writers => WriterOK(t)',
         t = Flusher => place \in {"idle", "drain", "write", "sync", "signal"},
         t = Owner => place \in {"closed", "recover", "failed", "idle", "drain", "write", "sync",
                                 "signal", "truncate", "reseek", "join"}
  PROVE  Places'
<1>1. pc' = [u \in Procs |-> pc'[u]] /\ pc'[t] = place /\ \A u \in Procs : u # t => pc'[u] = pc[u]
  BY Gone DEF Places
<1>2. ASSUME NEW w \in Writers, w # t PROVE WriterOK(w)'
  <2>1. pc'[w] = pc[w] /\ batch'[w] = batch[w] /\ rec'[w] = rec[w] /\ mode' = mode
    BY <1>1, <1>2, Threads
  <2>2. 1..ops \subseteq 1..ops'
    BY DEF Types
  <2> QED BY <2>1, <2>2 DEF Places, WriterOK
<1> QED BY <1>1, <1>2, Threads DEF Places

\* Each step leaves the threads where they can be.
LEMMA ControlNext ==
  ASSUME Types, Control, [Next]_vars, mode # "relaxed" => ToSet(pending) \cap signalled = {}
  PROVE  Control'
<1> USE Threads
<1>0. /\ Places /\ Locking /\ Queueing /\ Recovering /\ pc = [u \in Procs |-> pc[u]]
      /\ \A w \in Writers : WriterOK(w)
      /\ ToSet(<<>>) = {} /\ mode \in AllModes
      /\ \A t \in Procs : \A place : GoTo(t, place) =>
           /\ pc' = [u \in Procs |-> pc'[u]] /\ pc'[t] = place
           /\ \A u \in Procs : u # t => pc'[u] = pc[u]
  BY Gone DEF Control, Places, ToSet, Types
<1>1. ASSUME NEW w \in Writers, Submit(w) PROVE Control'
  <2> DEFINE place == CASE mode = "immediate" -> "write"
                        [] mode = "group" -> "enqueue"
                        [] mode = "relaxed" -> "append"
  <2>1. /\ pc[w] = "idle" /\ mounted /\ ops' = ops + 1 /\ rec' = [rec EXCEPT ![w] = ops + 1]
        /\ batch' = [batch EXCEPT ![w] = IF mode = "immediate" THEN <<ops + 1>> ELSE <<>>]
        /\ GoTo(w, place)
        /\ UNCHANGED <<mode, mounted, pending, buffer, pos, file, lock, after>>
    BY <1>1 DEF Submit, session, disk
  <2>2. /\ place \in {"write", "enqueue", "append"}
        /\ mode = "immediate" => place = "write"
        /\ mode = "group" => place = "enqueue"
        /\ mode = "relaxed" => place = "append"
    BY <1>0 DEF AllModes
  <2> HIDE DEF place
  <2>3. rec'[w] = ops + 1 /\ ops + 1 \in 1..ops' /\ \A u \in Writers : u # w => rec'[u] = rec[u]
    BY <2>1 DEF Types
  <2>4. (mode = "immediate" => batch'[w] = <<rec'[w]>>) /\ \A u \in Procs : u # w => batch'[u] = batch[u]
    BY <2>1, <2>3 DEF Types
  <2>5. pc'[w] = place /\ \A u \in Procs : u # w => pc'[u] = pc[u]
    BY <1>0, <2>1
  <2>6. WriterOK(w)'
    BY <1>0, <2>1, <2>2, <2>3, <2>4, <2>5 DEF WriterOK, AllModes
  <2>7. Places'
    BY <1>0, <2>1, <2>3, <2>4, <2>6, PlacesNext
  <2>8. Locking' /\ Recovering'
    BY <1>0, <2>1, <2>2, <2>5 DEF Locking, Recovering
  <2>9. Queueing'
    BY <1>0, <2>1, <2>3, <2>5 DEF Queueing
  <2> QED BY <2>7, <2>8, <2>9 DEF Control
<1>2. ASSUME NEW w \in Writers, Enqueue(w) PROVE Control'
  <2> DEFINE place == IF Len(pending') >= MaxPendingOps THEN "drain" ELSE "wait"
  <2>1. /\ pc[w] = "enqueue" /\ pending' = Append(pending, rec[w]) /\ GoTo(w, place)
        /\ UNCHANGED <<mode, mounted, buffer, pos, file, lock, after, rec, batch, ops>>
    BY <1>2 DEF Enqueue, session, disk, history
  <2>2. place \in {"drain", "wait"}
    OBVIOUS
  <2> HIDE DEF place
  <2>3. mode = "group" /\ mounted /\ rec[w] \in 1..ops /\ rec[w] \in Op
    <3>1. mode = "group" /\ rec[w] \in 1..ops
      BY <1>0, <2>1 DEF WriterOK, AllModes
    <3>2. mounted
      BY <1>0, <2>1 DEF Recovering
    <3>3. 1..ops \subseteq Op
      BY LimitAssumption DEF Types, Op
    <3> QED BY <3>1, <3>2, <3>3
  <2>4. pc'[w] = place /\ \A u \in Procs : u # w => pc'[u] = pc[u]
    BY <1>0, <2>1
  <2>5. WriterOK(w)'
    BY <2>1, <2>2, <2>3, <2>4 DEF WriterOK
  <2>6. Places'
    BY <1>0, <2>1, <2>5, PlacesNext
  <2>7. Locking' /\ Recovering'
    BY <1>0, <2>1, <2>2, <2>3, <2>4 DEF Locking, Recovering
  <2>8. Queueing'
    <3>1. ToSet(pending') = ToSet(pending) \cup {rec[w]}
      BY <2>1, <2>3, Appended DEF Types
    <3> QED BY <1>0, <2>1, <2>2, <2>3, <2>4, <3>1 DEF Queueing
  <2> QED BY <2>6, <2>7, <2>8 DEF Control
<1>3. ASSUME NEW w \in Writers, Wake(w) PROVE Control'
  <2>1. /\ pc[w] = "wait" /\ rec[w] \in signalled /\ GoTo(w, "idle")
        /\ UNCHANGED <<mode, mounted, pending, buffer, pos, file, lock, after, rec, batch, ops>>
    BY <1>3 DEF Wake, Answer, session, disk
  <2>2. pc'[w] = "idle" /\ \A u \in Procs : u # w => pc'[u] = pc[u]
    BY <1>0, <2>1
  <2>3. mode # "relaxed"
    BY <1>0, <2>1 DEF WriterOK
  <2>4. Places'
    BY <1>0, <2>1, <2>2, PlacesNext DEF WriterOK
  <2>5. Locking' /\ Recovering'
    BY <1>0, <2>1, <2>2 DEF Locking, Recovering
  <2>6. Queueing'
    BY <1>0, <2>1, <2>2, <2>3 DEF Queueing
  <2> QED BY <2>4, <2>5, <2>6 DEF Control
<1>4. ASSUME NEW w \in Writers, AppendRelaxed(w) PROVE Control'
  <2>1. /\ pc[w] = "append" /\ lock = NoOne /\ GoTo(w, "idle")
        /\ UNCHANGED <<mode, mounted, pending, lock, after, rec, batch, ops>>
    BY <1>4 DEF AppendRelaxed, Answer, session
  <2>2. pc'[w] = "idle" /\ \A u \in Procs : u # w => pc'[u] = pc[u]
    BY <1>0, <2>1
  <2>3. mode = "relaxed" /\ mounted
    BY <1>0, <2>1 DEF WriterOK, Recovering, AllModes
  <2>4. Places'
    BY <1>0, <2>1, <2>2, PlacesNext DEF WriterOK
  <2>5. Locking' /\ Recovering'
    BY <1>0, <2>1, <2>2, <2>3 DEF Locking, Recovering
  <2>6. Queueing'
    BY <1>0, <2>1, <2>2, <2>3 DEF Queueing
  <2> QED BY <2>4, <2>5, <2>6 DEF Control
<1>5. ASSUME NEW t \in Procs, Drain(t) PROVE Control'
  <2> DEFINE place == IF pending = <<>> THEN FlushDone(t) ELSE "write"
  <2>1. /\ pc[t] = "drain" /\ pending' = <<>> /\ GoTo(t, place)
        /\ batch' = [batch EXCEPT ![t] = pending]
        /\ UNCHANGED <<mode, mounted, buffer, pos, file, lock, after, rec, ops>>
    BY <1>5 DEF Drain, session, disk, history
  <2>2. /\ t \in Writers => place \in {"wait", "write"}
        /\ t = Flusher => place \in {"idle", "write"}
        /\ t = Owner => place \in {"write", "truncate", "join"} /\ (after = "truncate" => place # "join")
        /\ pending = <<>> => place # "write"
    BY DEF FlushDone, Types
  <2> HIDE DEF place
  <2>3. pc'[t] = place /\ \A u \in Procs : u # t => pc'[u] = pc[u]
    BY <1>0, <2>1
  <2>4. t \in Writers => mode = "group"
    BY <1>0, <2>1 DEF WriterOK, AllModes
  <2>5. t \in Writers => WriterOK(t)'
    BY <1>0, <2>1, <2>2, <2>3, <2>4 DEF WriterOK
  <2>6. \A u \in Procs : u # t => batch'[u] = batch[u]
    BY <2>1 DEF Types
  <2>7. Places'
    BY <1>0, <2>1, <2>2, <2>5, <2>6, PlacesNext
  <2>8. Locking'
    BY <1>0, <2>1, <2>2, <2>3 DEF Locking
  <2>9. Recovering'
    BY <1>0, <2>1, <2>2, <2>3 DEF Recovering
  <2>10. Queueing'
    BY <1>0, <2>1, <2>2, <2>3 DEF Queueing
  <2> QED BY <2>7, <2>8, <2>9, <2>10 DEF Control
<1>6. ASSUME NEW t \in Procs, WriteOut(t) \/ Sync(t) PROVE Control'
  <2> DEFINE place == IF pc[t] = "write" THEN "sync" ELSE "signal"
  <2>1. /\ pc[t] \in {"write", "sync"} /\ GoTo(t, place)
        /\ pc[t] = "write" => lock = NoOne /\ lock' = t
        /\ pc[t] = "sync" => lock' = NoOne /\ UNCHANGED file
        /\ UNCHANGED <<mode, mounted, pending, after, rec, batch, ops>>
    BY <1>6 DEF WriteOut, Sync, session, history
  <2>2. pc'[t] = place /\ \A u \in Procs : u # t => pc'[u] = pc[u]
    BY <1>0, <2>1
  <2>3. mounted /\ mode # "relaxed" /\ (t \notin Writers => mode = "group")
    BY <2>1, Flushing DEF Calling
  <2>4. t \in Writers => WriterOK(t)'
    BY <1>0, <2>1, <2>2 DEF WriterOK
  <2>5. Places'
    BY <1>0, <2>1, <2>2, <2>4, PlacesNext
  <2>6. Locking'
    BY <1>0, <2>1, <2>2 DEF Locking
  <2>7. Recovering'
    BY <1>0, <2>1, <2>2, <2>3 DEF Recovering
  <2>8. Queueing'
    BY <1>0, <2>1, <2>2, <2>3 DEF Queueing
  <2> QED BY <2>5, <2>6, <2>7, <2>8 DEF Control
<1>7. ASSUME NEW t \in Procs, Fail(t) PROVE Control'
  <2>1. /\ pc[t] \in {"write", "sync"} /\ GoTo(t, FlushFailed(t))
        /\ pc[t] = "write" => lock = NoOne
        /\ pc[t] = "sync" => UNCHANGED file
        /\ lock' = NoOne /\ batch' = [batch EXCEPT ![t] = <<>>]
        /\ UNCHANGED <<mode, mounted, pending, after, rec, ops>>
    BY <1>7 DEF Fail, session
  <2>2. FlushFailed(t) \in {"idle", "closed"} /\ (FlushFailed(t) = "closed" => t = Owner)
    BY DEF FlushFailed
  <2>3. pc'[t] = FlushFailed(t) /\ \A u \in Procs : u # t => pc'[u] = pc[u]
    BY <1>0, <2>1
  <2>4. mounted /\ mode # "relaxed" /\ (t \notin Writers => mode = "group")
    BY <2>1, Flushing DEF Calling
  <2>5. t \in Writers => WriterOK(t)'
    BY <1>0, <2>1, <2>2, <2>3 DEF WriterOK
  <2>6. \A u \in Procs : u # t => batch'[u] = batch[u]
    BY <2>1 DEF Types
  <2>7. Places'
    BY <1>0, <2>1, <2>2, <2>5, <2>6, PlacesNext
  <2>8. Locking'
    BY <1>0, <2>1, <2>2, <2>3 DEF Locking
  <2>9. Recovering'
    BY <1>0, <2>1, <2>2, <2>3, <2>4 DEF Recovering
  <2>10. Queueing'
    BY <1>0, <2>1, <2>2, <2>3, <2>4 DEF Queueing
  <2> QED BY <2>7, <2>8, <2>9, <2>10 DEF Control
<1>8. ASSUME NEW t \in Procs, Signal(t) PROVE Control'
  <2> DEFINE place == IF mode = "immediate" THEN "idle" ELSE FlushDone(t)
  <2>1. /\ pc[t] = "signal" /\ GoTo(t, place)
        /\ batch' = [batch EXCEPT ![t] = <<>>]
        /\ UNCHANGED <<mode, mounted, pending, buffer, pos, file, lock, after, rec, ops>>
    BY <1>8 DEF Signal, Answer, session, disk
  <2>2. /\ t \in Writers => place \in {"wait", "idle"} /\ (mode = "immediate" => place = "idle")
        /\ t = Flusher => place = "idle"
        /\ t = Owner /\ mode # "immediate" => place \in {"truncate", "join"}
    BY DEF FlushDone, Types
  <2> HIDE DEF place
  <2>3. pc'[t] = place /\ \A u \in Procs : u # t => pc'[u] = pc[u]
    BY <1>0, <2>1
  <2>4. mounted /\ mode # "relaxed" /\ (t \notin Writers => mode = "group")
    BY <2>1, Flushing DEF Calling
  <2>5. t \in Writers => WriterOK(t)'
    BY <1>0, <2>1, <2>2, <2>3, <2>4 DEF WriterOK
  <2>6. \A u \in Procs : u # t => batch'[u] = batch[u]
    BY <2>1 DEF Types
  <2>7. Places'
    BY <1>0, <2>1, <2>2, <2>4, <2>5, <2>6, PlacesNext
  <2>8. Locking'
    BY <1>0, <2>1, <2>2, <2>3, <2>4 DEF Locking
  <2>9. Recovering'
    BY <1>0, <2>1, <2>2, <2>3, <2>4 DEF Recovering
  <2>10. Queueing'
    BY <1>0, <2>1, <2>2, <2>3, <2>4 DEF Queueing
  <2> QED BY <2>7, <2>8, <2>9, <2>10 DEF Control
<1>9. ASSUME Tick PROVE Control'
  <2>1. /\ mode = "group" /\ pc[Flusher] = "idle" /\ GoTo(Flusher, "drain")
        /\ UNCHANGED <<mode, mounted, pending, buffer, pos, file, lock, after, rec, batch, ops>>
    BY <1>9 DEF Tick, session, disk, history
  <2>2. pc'[Flusher] = "drain" /\ \A u \in Procs : u # Flusher => pc'[u] = pc[u]
    BY <1>0, <2>1
  <2>3. Places'
    BY <1>0, <2>1, PlacesNext
  <2> QED BY <1>0, <2>1, <2>2, <2>3 DEF Control, Locking, Recovering, Queueing
<1>10. ASSUME Open PROVE Control'
  <2>1. /\ pc[Owner] = "closed" /\ GoTo(Owner, "recover") /\ mounted' = FALSE
        /\ \A t \in Procs \ {Owner} : pc[t] = "idle"
        /\ buffer' = <<>> /\ pos' = 0
        /\ UNCHANGED <<mode, pending, lock, after, rec, batch, ops>>
    BY <1>10 DEF Open, history
  <2>2. pc'[Owner] = "recover" /\ \A u \in Procs : u # Owner => pc'[u] = pc[u]
    BY <1>0, <2>1
  <2>3. Places'
    BY <1>0, <2>1, PlacesNext
  <2>4. pending = <<>>
    <3>1. ToSet(pending) = {}
      BY <1>0, <2>1 DEF Queueing
    <3>2. pending \in Seq(Op) /\ \A i \in DOMAIN pending : pending[i] \in ToSet(pending)
      BY DEF Types, ToSet
    <3>3. pending # <<>> => 1 \in DOMAIN pending
      BY <3>2, EmptySeq, LenProperties
    <3> QED BY <3>1, <3>2, <3>3
  <2> QED BY <1>0, <2>1, <2>2, <2>3, <2>4 DEF Control, Locking, Recovering, Queueing
<1>11. ASSUME Replay PROVE Control'
  <2> DEFINE place == IF Bad \in ToSet(file) THEN "failed" ELSE "drain"
  <2>1. /\ pc[Owner] = "recover" /\ GoTo(Owner, place)
        /\ place = "drain" => after' = "truncate"
        /\ UNCHANGED <<mode, mounted, pending, buffer, pos, file, lock, rec, batch, ops>>
    BY <1>11 DEF Replay, session, disk
  <2>2. place \in {"failed", "drain"}
    OBVIOUS
  <2> HIDE DEF place
  <2>3. pc'[Owner] = place /\ \A u \in Procs : u # Owner => pc'[u] = pc[u]
    BY <1>0, <2>1
  <2>4. Places'
    BY <1>0, <2>1, <2>2, PlacesNext
  <2> QED BY <1>0, <2>1, <2>2, <2>3, <2>4 DEF Control, Locking, Recovering, Queueing
<1>12. ASSUME Checkpoint \/ Close \/ Join PROVE Control'
  <2> DEFINE place == IF pc[Owner] = "join" THEN "closed" ELSE "drain"
  <2>1. /\ pc[Owner] \in {"idle", "join"} /\ GoTo(Owner, place)
        /\ UNCHANGED <<mode, mounted, pending, buffer, pos, file, lock, rec, batch, ops>>
    BY <1>12 DEF Checkpoint, Close, Join, session, disk, history
  <2>2. place \in {"closed", "drain"}
    OBVIOUS
  <2> HIDE DEF place
  <2>3. pc'[Owner] = place /\ \A u \in Procs : u # Owner => pc'[u] = pc[u]
    BY <1>0, <2>1
  <2>4. Places'
    BY <1>0, <2>1, <2>2, PlacesNext
  <2> QED BY <1>0, <2>1, <2>2, <2>3, <2>4 DEF Control, Locking, Recovering, Queueing
<1>13. ASSUME Truncate PROVE Control'
  <2>1. /\ pc[Owner] = "truncate" /\ GoTo(Owner, "reseek") /\ lock = NoOne /\ lock' = Owner /\ file' = <<>>
        /\ UNCHANGED <<mode, mounted, pending, buffer, pos, after, rec, batch, ops>>
    BY <1>13 DEF Truncate, session
  <2>2. pc'[Owner] = "reseek" /\ \A u \in Procs : u # Owner => pc'[u] = pc[u]
    BY <1>0, <2>1
  <2>3. Places'
    BY <1>0, <2>1, PlacesNext
  <2> QED BY <1>0, <2>1, <2>2, <2>3 DEF Control, Locking, Recovering, Queueing
<1>14. ASSUME Reseek PROVE Control'
  <2>1. /\ pc[Owner] = "reseek" /\ GoTo(Owner, "idle") /\ lock' = NoOne /\ mounted'
        /\ UNCHANGED <<mode, pending, after, rec, batch, ops>>
    BY <1>14 DEF Reseek, history
  <2>2. pc'[Owner] = "idle" /\ \A u \in Procs : u # Owner => pc'[u] = pc[u]
    BY <1>0, <2>1
  <2>3. Places'
    BY <1>0, <2>1, PlacesNext
  <2> QED BY <1>0, <2>1, <2>2, <2>3 DEF Control, Locking, Recovering, Queueing
<1>15. ASSUME CheckpointFails PROVE Control'
  <2> DEFINE place == IF mounted THEN "idle" ELSE "failed"
  <2>1. /\ pc[Owner] \in {"truncate", "reseek"} /\ GoTo(Owner, place) /\ lock' = NoOne
        /\ pc[Owner] = "truncate" => lock = NoOne
        /\ UNCHANGED <<buffer, pos>> \/ (buffer' = <<>> /\ pos' = 0)
        /\ UNCHANGED <<mode, mounted, pending, after, rec, batch, ops>>
    BY <1>15 DEF CheckpointFails, session
  <2>2. place \in {"idle", "failed"} /\ (place = "idle" <=> mounted)
    OBVIOUS
  <2> HIDE DEF place
  <2>3. pc'[Owner] = place /\ \A u \in Procs : u # Owner => pc'[u] = pc[u]
    BY <1>0, <2>1
  <2>4. Places'
    BY <1>0, <2>1, <2>2, PlacesNext
  <2> QED BY <1>0, <2>1, <2>2, <2>3, <2>4 DEF Control, Locking, Recovering, Queueing
<1>16. ASSUME PowerFailure PROVE Control'
  <2>1. /\ pc' = [t \in Procs |-> IF t = Owner THEN "closed" ELSE "idle"]
        /\ mounted' = FALSE /\ pending' = <<>> /\ buffer' = <<>> /\ pos' = 0
        /\ UNCHANGED mode
    BY <1>16 DEF PowerFailure
  <2>2. pc'[Owner] = "closed" /\ \A u \in Procs : u # Owner => pc'[u] = "idle"
    BY <2>1
  <2>3. \A w \in Writers : pc'[w] = "idle"
    BY <2>2
  <2> QED BY <1>0, <2>1, <2>2, <2>3 DEF Control, Places, WriterOK, Locking, Recovering, Queueing
<1>17. CASE UNCHANGED vars
  BY <1>17 DEF vars, disk, session, threads, history, Control, Places, WriterOK, Locking, Recovering, Queueing
<1> QED
  BY <1>1, <1>2, <1>3, <1>4, <1>5, <1>6, <1>7, <1>8, <1>9, <1>10, <1>11, <1>12, <1>13, <1>14, <1>15,
     <1>16, <1>17 DEF Next, Runs, Flush
-----------------------------------------------------------------------------
(* A record is in one place *)

\* The records that thread t is going to queue or to write.
Held(t) ==
  IF pc[t] = "write" THEN ToSet(batch[t])
  ELSE IF t \in Writers /\ pc[t] \in {"enqueue", "append"} THEN {rec[t]} ELSE {}

\* The records on the disk.
Seen == (ToSet(file) \cup ToSet(durable)) \ {Bad}

\* The records are those of calls that were made.
Fresh ==
  /\ Seen \cup ToSet(pending) \cup ToSet(buffer) \cup acked \cup signalled \subseteq 1..ops
  /\ \A t \in Procs : Held(t) \cup ToSet(batch[t]) \subseteq 1..ops

\* A record is in one of the queue, the buffer, the file and a thread.
Apart ==
  /\ ToSet(pending) \cap (ToSet(buffer) \cup Seen) = {} /\ ToSet(buffer) \cap Seen = {}
  /\ \A t \in Procs : Held(t) \cap (ToSet(pending) \cup ToSet(buffer) \cup Seen) = {}
  /\ \A t, u \in Procs : t # u => Held(t) \cap Held(u) = {}

\* A record is at one place of the file and of the disk, the same in both, or
\* in one place on its way there; its number is one that was given out.
Unique ==
  /\ Aligned(pending, pending) /\ Aligned(buffer, buffer)
  /\ \A t \in Procs : Aligned(batch[t], batch[t])
  /\ Aligned(file, file) /\ Aligned(durable, durable) /\ Aligned(durable, file)
  /\ Fresh /\ Apart

\* A thread that does not move holds what it held.
LEMMA HeldStays ==
  ASSUME NEW u, pc'[u] = pc[u], batch'[u] = batch[u], rec'[u] = rec[u]
  PROVE  Held(u)' = Held(u)
BY DEF Held

\* New records are written to the file.
LEMMA PutUnique ==
  ASSUME Types, Aligned(file, file), Aligned(durable, file), NEW cells \in Seq(Op),
         Aligned(cells, cells), ToSet(cells) \cap Seen = {}, NEW f, f = Put(cells)
  PROVE  /\ Aligned(f, f) /\ Aligned(durable, f)
         /\ ToSet(f) \ {Bad} \subseteq (ToSet(file) \ {Bad}) \cup ToSet(cells)
<1>1. /\ \A i \in DOMAIN f : \/ i \in DOMAIN file /\ f[i] = file[i]
                             \/ f[i] = Bad
                             \/ i > pos /\ i - pos \in DOMAIN cells /\ f[i] = cells[i - pos]
      /\ DOMAIN f \subseteq Nat /\ pos \in Nat
  <2>1. f \in Seq(0..MaxOps)
    BY PutCells DEF Types
  <2>2. DOMAIN f \subseteq Nat
    BY <2>1, LenProperties
  <2> QED BY <2>2, PutCells DEF Types
<1>2. \A i \in DOMAIN cells : cells[i] \in ToSet(cells)
  BY DEF ToSet
<1>3. \A i \in DOMAIN file : file[i] # Bad => file[i] \in Seen
  BY DEF ToSet, Seen
<1>4. \A i \in DOMAIN durable : durable[i] # Bad => durable[i] \in Seen
  BY DEF ToSet, Seen
<1>5. Aligned(f, f)
  <2> SUFFICES ASSUME NEW i \in DOMAIN f, NEW j \in DOMAIN f, f[i] = f[j], f[i] # Bad PROVE i = j
    BY DEF Aligned
  <2>1. CASE i \in DOMAIN file /\ f[i] = file[i] /\ j \in DOMAIN file /\ f[j] = file[j]
    BY <2>1 DEF Aligned
  <2>2. CASE i - pos \in DOMAIN cells /\ f[i] = cells[i - pos] /\ j - pos \in DOMAIN cells /\ f[j] = cells[j - pos]
    <3>1. i - pos = j - pos
      BY <2>2 DEF Aligned
    <3> QED BY <1>1, <3>1
  <2>3. CASE i \in DOMAIN file /\ f[i] = file[i] /\ j - pos \in DOMAIN cells /\ f[j] = cells[j - pos]
    BY <1>2, <1>3, <2>3
  <2>4. CASE j \in DOMAIN file /\ f[j] = file[j] /\ i - pos \in DOMAIN cells /\ f[i] = cells[i - pos]
    BY <1>2, <1>3, <2>4
  <2> QED BY <1>1, <2>1, <2>2, <2>3, <2>4
<1>6. Aligned(durable, f)
  <2> SUFFICES ASSUME NEW i \in DOMAIN durable, NEW j \in DOMAIN f, durable[i] = f[j], durable[i] # Bad
               PROVE i = j
    BY DEF Aligned
  <2>1. CASE j \in DOMAIN file /\ f[j] = file[j]
    BY <2>1 DEF Aligned
  <2>2. CASE j - pos \in DOMAIN cells /\ f[j] = cells[j - pos]
    BY <1>2, <1>4, <2>2
  <2> QED BY <1>1, <2>1, <2>2
<1>7. ToSet(f) \ {Bad} \subseteq (ToSet(file) \ {Bad}) \cup ToSet(cells)
  BY <1>1 DEF ToSet
<1> QED BY <1>5, <1>6, <1>7

\* The empty sequence.
LEMMA Empty == ToSet(<<>>) = {} /\ \A s : Aligned(<<>>, s) /\ Aligned(s, <<>>)
BY DEF ToSet, Aligned

\* Each step leaves a record in one place.
LEMMA UniqueNext == ASSUME Types, Control, Unique, [Next]_vars PROVE Unique'
<1> USE Threads, Empty
<1>0. /\ Places /\ pc = [u \in Procs |-> pc[u]] /\ \A w \in Writers : WriterOK(w)
      /\ \A t \in Procs : \A place : GoTo(t, place) =>
           /\ pc' = [u \in Procs |-> pc'[u]] /\ pc'[t] = place
           /\ \A u \in Procs : u # t => pc'[u] = pc[u]
      /\ \A t \in Procs : batch[t] \in Seq(Op)
      /\ 1..ops \subseteq Op /\ ops + 1 \notin 1..ops /\ mode \in AllModes
  <2>1. 1..ops \subseteq Op /\ ops + 1 \notin 1..ops
    BY LimitAssumption DEF Types, Op
  <2> QED BY <2>1, Gone DEF Control, Places, Types
<1>1. ASSUME NEW w \in Writers, Submit(w) PROVE Unique'
  <2> DEFINE place == CASE mode = "immediate" -> "write"
                        [] mode = "group" -> "enqueue"
                        [] mode = "relaxed" -> "append"
             mine == IF mode = "immediate" THEN <<ops + 1>> ELSE <<>>
  <2>1. /\ pc[w] = "idle" /\ ops' = ops + 1 /\ rec' = [rec EXCEPT ![w] = ops + 1]
        /\ batch' = [batch EXCEPT ![w] = mine] /\ GoTo(w, place)
        /\ UNCHANGED <<pending, buffer, file, durable, acked, signalled>>
    BY <1>1 DEF Submit, disk
  <2>2. /\ mode = "immediate" => place = "write"
        /\ mode # "immediate" => place \in {"enqueue", "append"}
    BY <1>0 DEF AllModes
  <2>3. ToSet(mine) \subseteq {ops + 1} /\ Aligned(mine, mine) /\ (mode = "immediate" => ToSet(mine) = {ops + 1})
    BY DEF ToSet, Aligned
  <2> HIDE DEF place, mine
  <2>4. rec'[w] = ops + 1 /\ batch'[w] = mine /\ pc'[w] = place
        /\ \A u \in Procs : u # w => pc'[u] = pc[u] /\ batch'[u] = batch[u] /\ rec'[u] = rec[u]
    BY <1>0, <2>1 DEF Types
  <2>5. Held(w)' = {ops + 1} /\ \A u \in Procs : u # w => Held(u)' = Held(u)
    BY <2>2, <2>3, <2>4, HeldStays DEF Held
  <2>6. 1..ops \subseteq 1..ops' /\ ops + 1 \in 1..ops'
    BY <2>1 DEF Types
  <2>7. Fresh'
    BY <2>1, <2>3, <2>4, <2>5, <2>6 DEF Unique, Fresh, Seen
  <2>8. Apart'
    BY <1>0, <2>1, <2>5 DEF Unique, Fresh, Apart, Seen
  <2> QED BY <2>1, <2>3, <2>4, <2>7, <2>8 DEF Unique
<1>2. ASSUME NEW w \in Writers, Enqueue(w) PROVE Unique'
  <2> DEFINE place == IF Len(pending') >= MaxPendingOps THEN "drain" ELSE "wait"
  <2>1. /\ pc[w] = "enqueue" /\ pending' = Append(pending, rec[w]) /\ GoTo(w, place)
        /\ UNCHANGED <<buffer, file, durable, rec, batch, ops, acked, signalled>>
    BY <1>2 DEF Enqueue, disk, history
  <2>2. place \in {"drain", "wait"}
    OBVIOUS
  <2> HIDE DEF place
  <2>3. pc'[w] = place /\ \A u \in Procs : u # w => pc'[u] = pc[u]
    BY <1>0, <2>1
  <2>4. Held(w) = {rec[w]} /\ Held(w)' = {} /\ \A u \in Procs : u # w => Held(u)' = Held(u)
    BY <2>1, <2>2, <2>3, HeldStays DEF Held
  <2>5. rec[w] \in Op /\ rec[w] \notin ToSet(pending)
    BY <1>0, <2>4 DEF Unique, Fresh, Apart
  <2>6. ToSet(pending') = ToSet(pending) \cup {rec[w]} /\ Aligned(pending', pending')
    BY <2>1, <2>5, Appended DEF Unique, Types
  <2>7. Fresh'
    BY <2>1, <2>4, <2>6 DEF Unique, Fresh, Seen
  <2>8. Apart'
    BY <2>1, <2>4, <2>6 DEF Unique, Apart, Seen
  <2> QED BY <2>1, <2>6, <2>7, <2>8 DEF Unique
<1>3. ASSUME NEW w \in Writers, Wake(w) PROVE Unique'
  <2>1. /\ pc[w] = "wait" /\ rec[w] \in signalled /\ GoTo(w, "idle") /\ acked' = acked \cup {rec[w]}
        /\ UNCHANGED <<pending, buffer, file, durable, rec, batch, ops, signalled>>
    BY <1>3 DEF Wake, Answer, disk
  <2>2. \A u \in Procs : Held(u)' = Held(u)
    BY <1>0, <2>1, HeldStays DEF Held
  <2>3. Fresh'
    BY <2>1, <2>2 DEF Unique, Fresh, Seen
  <2>4. Apart'
    BY <2>1, <2>2 DEF Unique, Apart, Seen
  <2> QED BY <2>1, <2>3, <2>4 DEF Unique
<1>4. ASSUME NEW w \in Writers, AppendRelaxed(w) PROVE Unique'
  <2>1. /\ pc[w] = "append" /\ GoTo(w, "idle") /\ acked' = acked \cup {rec[w]}
        /\ UNCHANGED <<pending, durable, rec, batch, ops, signalled>>
    BY <1>4 DEF AppendRelaxed, Answer
  <2>2. Held(w) = {rec[w]} /\ Held(w)' = {} /\ \A u \in Procs : u # w => Held(u)' = Held(u)
    BY <1>0, <2>1, HeldStays DEF Held
  <2>3. rec[w] \in Op /\ rec[w] \notin ToSet(buffer) /\ rec[w] \in 1..ops
    BY <1>0, <2>2 DEF Unique, Fresh, Apart
  <2>4. CASE buffer' = Append(buffer, rec[w]) /\ UNCHANGED file
    <3>1. ToSet(buffer') = ToSet(buffer) \cup {rec[w]} /\ Aligned(buffer', buffer')
      BY <2>3, <2>4, Appended DEF Unique, Types
    <3>2. Fresh'
      BY <2>1, <2>2, <2>3, <2>4, <3>1 DEF Unique, Fresh, Seen
    <3>3. Apart'
      BY <2>1, <2>2, <2>4, <3>1 DEF Unique, Apart, Seen
    <3> QED BY <2>1, <2>4, <3>1, <3>2, <3>3 DEF Unique
  <2>5. CASE file' = Put(buffer) /\ buffer' = <<rec[w]>>
    <3>1. ToSet(buffer') = {rec[w]} /\ Aligned(buffer', buffer')
      BY <2>5 DEF ToSet, Aligned
    <3>2. /\ Aligned(file', file') /\ Aligned(durable, file')
          /\ ToSet(file') \ {Bad} \subseteq (ToSet(file) \ {Bad}) \cup ToSet(buffer)
      BY <2>5, PutUnique DEF Unique, Apart, Types
    <3>3. Fresh'
      BY <2>1, <2>2, <2>3, <3>1, <3>2 DEF Unique, Fresh, Seen
    <3>4. Apart'
      BY <2>1, <2>2, <3>1, <3>2 DEF Unique, Apart, Seen
    <3> QED BY <2>1, <3>1, <3>2, <3>3, <3>4 DEF Unique
  <2> QED BY <1>4, <2>4, <2>5 DEF AppendRelaxed
<1>5. ASSUME NEW t \in Procs, Drain(t) PROVE Unique'
  <2> DEFINE place == IF pending = <<>> THEN FlushDone(t) ELSE "write"
  <2>1. /\ pc[t] = "drain" /\ pending' = <<>> /\ GoTo(t, place)
        /\ batch' = [batch EXCEPT ![t] = pending]
        /\ UNCHANGED <<buffer, file, durable, rec, ops, acked, signalled>>
    BY <1>5 DEF Drain, disk, history
  <2>2. place \in {"write", "wait", "idle", "truncate", "join"}
    BY DEF FlushDone, Types
  <2> HIDE DEF place
  <2>3. pc'[t] = place /\ batch'[t] = pending
        /\ \A u \in Procs : u # t => pc'[u] = pc[u] /\ batch'[u] = batch[u] /\ rec'[u] = rec[u]
    BY <1>0, <2>1 DEF Types
  <2>4. Held(t)' \subseteq ToSet(pending) /\ \A u \in Procs : u # t => Held(u)' = Held(u)
    BY <2>2, <2>3, HeldStays DEF Held
  <2>5. Fresh'
    BY <2>1, <2>3, <2>4 DEF Unique, Fresh, Seen
  <2>6. Apart'
    BY <2>1, <2>4 DEF Unique, Apart, Seen
  <2> QED BY <2>1, <2>3, <2>5, <2>6 DEF Unique
<1>6. ASSUME NEW t \in Procs, NEW cells \in Seq(Op), pc[t] = "write", buffer' \in Seq(Op),
             Aligned(cells, cells), Aligned(buffer', buffer'), ToSet(cells) \cap ToSet(buffer') = {},
             ToSet(cells) \cup ToSet(buffer') \subseteq ToSet(buffer) \cup ToSet(batch[t]),
             file' = Put(cells), batch'[t] \in {batch[t], <<>>},
             pc'[t] \in {"sync", "idle", "closed"},
             \A u \in Procs : u # t => pc'[u] = pc[u] /\ batch'[u] = batch[u] /\ rec'[u] = rec[u],
             UNCHANGED <<pending, durable, ops, acked, signalled>>
      PROVE  Unique'
  <2>1. Held(t) = ToSet(batch[t]) /\ Held(t)' = {} /\ \A u \in Procs : u # t => Held(u)' = Held(u)
    BY <1>6, HeldStays DEF Held
  <2>2. ToSet(cells) \cap Seen = {}
    BY <1>6, <2>1 DEF Unique, Apart
  <2>3. /\ Aligned(file', file') /\ Aligned(durable, file')
        /\ ToSet(file') \ {Bad} \subseteq (ToSet(file) \ {Bad}) \cup ToSet(cells)
    BY <1>6, <2>2, PutUnique DEF Unique
  <2>4. Fresh'
    <3>1. Seen' \subseteq Seen \cup ToSet(buffer) \cup Held(t)
      BY <1>6, <2>1, <2>3 DEF Seen
    <3>2. ToSet(buffer') \subseteq ToSet(buffer) \cup Held(t)
      BY <1>6, <2>1
    <3>3. \A u \in Procs : ToSet(batch'[u]) \subseteq ToSet(batch[u])
      BY <1>6
    <3> QED BY <1>6, <2>1, <3>1, <3>2, <3>3 DEF Unique, Fresh
  <2>5. Apart'
    <3>1. Seen' \subseteq Seen \cup ToSet(cells)
      BY <1>6, <2>3 DEF Seen
    <3>2. ToSet(buffer') \cap Seen' = {}
      BY <1>6, <2>1, <3>1 DEF Unique, Apart
    <3>3. Seen' \cup ToSet(buffer') \subseteq Seen \cup ToSet(buffer) \cup Held(t)
      BY <1>6, <2>1, <3>1
    <3> QED BY <1>6, <2>1, <3>2, <3>3 DEF Unique, Apart
  <2> QED BY <1>6, <2>3, <2>4, <2>5 DEF Unique
<1>7. ASSUME NEW t \in Procs, pc[t] = "write"
      PROVE  /\ buffer \o batch[t] \in Seq(Op)
             /\ ToSet(buffer \o batch[t]) = ToSet(buffer) \cup ToSet(batch[t])
             /\ Aligned(buffer \o batch[t], buffer \o batch[t])
  <2>1. ToSet(buffer) \cap ToSet(batch[t]) = {}
    BY <1>7 DEF Unique, Apart, Held
  <2> QED BY <1>0, <2>1, Concatenated DEF Unique, Types
<1>8. ASSUME NEW t \in Procs, WriteOut(t) PROVE Unique'
  <2>1. /\ pc[t] = "write" /\ GoTo(t, "sync") /\ file' = Put(buffer \o batch[t]) /\ buffer' = <<>>
        /\ UNCHANGED <<pending, durable, rec, batch, ops, acked, signalled>>
    BY <1>8 DEF WriteOut, history
  <2>2. pc'[t] = "sync" /\ \A u \in Procs : u # t => pc'[u] = pc[u]
    BY <1>0, <2>1
  <2>3. buffer' \in Seq(Op)
    BY <2>1, EmptySeq
  <2> DEFINE all == buffer \o batch[t]
  <2>4. all \in Seq(Op) /\ ToSet(all) = ToSet(buffer) \cup ToSet(batch[t]) /\ Aligned(all, all)
        /\ file' = Put(all)
    BY <1>7, <2>1
  <2> HIDE DEF all
  <2> QED BY <1>6, <2>1, <2>2, <2>3, <2>4
<1>9. ASSUME NEW t \in Procs, pc[t] # "write", pc'[t] \in {"signal", "idle", "closed", "wait", "truncate", "join"},
             t \in Writers => pc[t] \notin {"enqueue", "append"},
             \A u \in Procs : u # t => pc'[u] = pc[u] /\ batch'[u] = batch[u] /\ rec'[u] = rec[u],
             batch'[t] \in {batch[t], <<>>},
             durable' \in {durable, file}, acked' \cup signalled' \subseteq 1..ops,
             UNCHANGED <<pending, buffer, file, ops>>
      PROVE  Unique'
  <2>1. Held(t) = {} /\ Held(t)' = {} /\ \A u \in Procs : u # t => Held(u)' = Held(u)
    BY <1>9, HeldStays DEF Held
  <2>2. Seen' \subseteq Seen
    BY <1>9 DEF Seen
  <2>3. Aligned(durable', durable') /\ Aligned(durable', file')
    BY <1>9 DEF Unique
  <2>4. Fresh'
    BY <1>9, <2>1, <2>2 DEF Unique, Fresh
  <2>5. Apart'
    BY <1>9, <2>1, <2>2 DEF Unique, Apart
  <2> QED BY <1>9, <2>3, <2>4, <2>5 DEF Unique
<1>10. ASSUME NEW t \in Procs, Sync(t) PROVE Unique'
  <2>1. /\ pc[t] = "sync" /\ GoTo(t, "signal") /\ durable' = file
        /\ UNCHANGED <<pending, buffer, file, rec, batch, ops, acked, signalled>>
    BY <1>10 DEF Sync, history
  <2>2. pc'[t] = "signal" /\ \A u \in Procs : u # t => pc'[u] = pc[u]
    BY <1>0, <2>1
  <2> QED BY <1>9, <2>1, <2>2 DEF Unique, Fresh
<1>11. ASSUME NEW t \in Procs, Fail(t) PROVE Unique'
  <2>1. /\ GoTo(t, FlushFailed(t)) /\ batch' = [batch EXCEPT ![t] = <<>>]
        /\ UNCHANGED <<pending, durable, rec, ops, acked, signalled>>
    BY <1>11 DEF Fail
  <2>2. /\ pc'[t] \in {"idle", "closed"} /\ batch'[t] = <<>>
        /\ \A u \in Procs : u # t => pc'[u] = pc[u] /\ batch'[u] = batch[u] /\ rec'[u] = rec[u]
    BY <1>0, <2>1 DEF FlushFailed, Types
  <2> DEFINE all == buffer \o batch[t]
  <2>3. CASE pc[t] = "write" /\ \E k \in 0..Len(all) :
               /\ file' = Put(SubSeq(all, 1, k)) /\ buffer' = SubSeq(all, k + 1, Len(all))
    <3>1. PICK k \in 0..Len(all) :
               /\ file' = Put(SubSeq(all, 1, k)) /\ buffer' = SubSeq(all, k + 1, Len(all))
      BY <2>3
    <3>2. all \in Seq(Op) /\ ToSet(all) = ToSet(buffer) \cup ToSet(batch[t]) /\ Aligned(all, all)
      BY <1>7, <2>3
    <3> HIDE DEF all
    <3> DEFINE cells == SubSeq(all, 1, k)
    <3>3. Parts(all, k, cells, buffer') /\ file' = Put(cells)
      BY <3>1 DEF Parts
    <3> HIDE DEF cells
    <3>4. /\ cells \in Seq(Op) /\ buffer' \in Seq(Op)
          /\ ToSet(cells) \subseteq ToSet(all) /\ ToSet(buffer') \subseteq ToSet(all)
          /\ Aligned(cells, cells) /\ Aligned(buffer', buffer') /\ ToSet(cells) \cap ToSet(buffer') = {}
      BY <3>2, <3>3, Split
    <3> QED BY <1>6, <2>1, <2>2, <2>3, <3>2, <3>3, <3>4
  <2>4. CASE pc[t] = "sync" /\ UNCHANGED <<buffer, file>>
    BY <1>9, <2>1, <2>2, <2>4 DEF Unique, Fresh
  <2> QED BY <1>11, <2>3, <2>4 DEF Fail
<1>12. ASSUME NEW t \in Procs, Signal(t) PROVE Unique'
  <2>1. /\ pc[t] = "signal" /\ batch' = [batch EXCEPT ![t] = <<>>]
        /\ UNCHANGED <<pending, buffer, file, durable, rec, ops>>
    BY <1>12 DEF Signal, disk
  <2>2. CASE mode = "immediate"
    <3>1. t \in Writers
      BY <2>1, <2>2, Flushing DEF Calling
    <3>2. GoTo(t, "idle") /\ acked' = acked \cup {rec[t]} /\ UNCHANGED signalled /\ rec[t] \in 1..ops
      BY <1>0, <1>12, <2>1, <2>2, <3>1 DEF Signal, Answer, WriterOK
    <3>3. /\ pc'[t] = "idle" /\ batch'[t] = <<>>
          /\ \A u \in Procs : u # t => pc'[u] = pc[u] /\ batch'[u] = batch[u] /\ rec'[u] = rec[u]
      BY <1>0, <2>1, <3>2 DEF Types
    <3> QED BY <1>9, <2>1, <3>2, <3>3 DEF Unique, Fresh
  <2>3. CASE mode # "immediate"
    <3>1. GoTo(t, FlushDone(t)) /\ signalled' = signalled \cup ToSet(batch[t]) /\ UNCHANGED acked
      BY <1>12, <2>3 DEF Signal
    <3>2. FlushDone(t) \in {"wait", "idle", "truncate", "join"}
      BY DEF FlushDone, Types
    <3>3. /\ pc'[t] \in {"wait", "idle", "truncate", "join"} /\ batch'[t] = <<>>
          /\ \A u \in Procs : u # t => pc'[u] = pc[u] /\ batch'[u] = batch[u] /\ rec'[u] = rec[u]
      BY <1>0, <2>1, <3>1, <3>2 DEF Types
    <3> QED BY <1>9, <2>1, <3>1, <3>3 DEF Unique, Fresh
  <2> QED BY <2>2, <2>3
<1>13. ASSUME NEW t \in {Owner, Flusher}, pc[t] # "write", pc'[t] # "write", \A u \in Procs : u # t => pc'[u] = pc[u],
              UNCHANGED <<batch, rec>>
       PROVE  \A u \in Procs : Held(u)' = Held(u)
  BY <1>13, HeldStays DEF Held
<1>14. ASSUME Tick \/ Checkpoint \/ Close \/ Join \/ Replay PROVE Unique'
  <2>1. /\ UNCHANGED <<pending, buffer, file, durable, rec, batch, ops, acked, signalled>>
        /\ \E t \in {Owner, Flusher} : pc[t] \in {"idle", "join", "recover"} /\
             \E place \in {"drain", "closed", "failed"} : GoTo(t, place)
    BY <1>14 DEF Tick, Checkpoint, Close, Join, Replay, disk, history
  <2>2. \A u \in Procs : Held(u)' = Held(u)
    BY <1>0, <1>13, <2>1
  <2> QED BY <2>1, <2>2 DEF Unique, Fresh, Apart, Seen
<1>15. ASSUME Open \/ Truncate \/ Reseek \/ CheckpointFails PROVE Unique'
  <2>1. /\ UNCHANGED <<pending, rec, batch, ops, acked, signalled>>
        /\ pc[Owner] \in {"closed", "truncate", "reseek"}
        /\ \E place \in {"recover", "reseek", "idle", "failed"} : GoTo(Owner, place)
    BY <1>15 DEF Open, Truncate, Reseek, CheckpointFails, history
  <2>2. \A u \in Procs : Held(u)' = Held(u)
    BY <1>0, <1>13, <2>1
  <2>3. \/ UNCHANGED <<buffer, file, durable>>
        \/ UNCHANGED <<buffer, durable>> /\ file' = <<>>
        \/ buffer' = <<>> /\ file' = Put(buffer) /\ durable' \in {durable, file'}
    BY <1>15 DEF Open, Truncate, Reseek, CheckpointFails
  <2>4. CASE UNCHANGED <<buffer, file, durable>>
    BY <2>1, <2>2, <2>4 DEF Unique, Fresh, Apart, Seen
  <2>5. CASE UNCHANGED <<buffer, durable>> /\ file' = <<>>
    <3>1. Seen' \subseteq Seen
      BY <2>5 DEF Seen
    <3>2. Fresh' /\ Apart'
      BY <2>1, <2>2, <2>5, <3>1 DEF Unique, Fresh, Apart
    <3> QED BY <2>1, <2>5, <3>2 DEF Unique
  <2>6. CASE buffer' = <<>> /\ file' = Put(buffer) /\ durable' \in {durable, file'}
    <3>1. /\ Aligned(file', file') /\ Aligned(durable, file')
          /\ ToSet(file') \ {Bad} \subseteq (ToSet(file) \ {Bad}) \cup ToSet(buffer)
      BY <2>6, PutUnique DEF Unique, Apart, Types
    <3>2. Seen' \subseteq Seen \cup ToSet(buffer)
      BY <2>6, <3>1 DEF Seen
    <3>3. Fresh'
      BY <2>1, <2>2, <2>6, <3>2 DEF Unique, Fresh
    <3>4. Apart'
      BY <2>1, <2>2, <2>6, <3>2 DEF Unique, Apart
    <3> QED BY <2>1, <2>6, <3>1, <3>3, <3>4 DEF Unique
  <2> QED BY <2>3, <2>4, <2>5, <2>6
<1>16. ASSUME PowerFailure PROVE Unique'
  <2>1. /\ \E f \in Outcomes : file' = f /\ durable' = f
        /\ pc' = [t \in Procs |-> IF t = Owner THEN "closed" ELSE "idle"]
        /\ batch' = [t \in Procs |-> <<>>]
        /\ pending' = <<>> /\ buffer' = <<>> /\ signalled' = {} /\ UNCHANGED <<ops, acked>>
    BY <1>16 DEF PowerFailure
  <2>2. \A u \in Procs : Held(u)' = {} /\ batch'[u] = <<>>
    BY <2>1 DEF Held
  <2>3. /\ durable' = file'
        /\ \A i \in DOMAIN file' : \/ i \in DOMAIN file /\ file'[i] = file[i]
                                   \/ i \in DOMAIN durable /\ file'[i] = durable[i]
                                   \/ file'[i] = Bad
    BY <2>1, OutcomesAre
  <2>4. Aligned(file', file')
    BY <2>3 DEF Unique, Aligned
  <2>5. Seen' \subseteq Seen
    BY <2>3 DEF Seen, ToSet
  <2>6. Fresh' /\ Apart'
    BY <2>1, <2>2, <2>5 DEF Unique, Fresh, Apart
  <2> QED BY <2>1, <2>2, <2>3, <2>4, <2>6 DEF Unique
<1>17. CASE UNCHANGED vars
  BY <1>17 DEF vars, disk, threads, history, Unique, Fresh, Apart, Seen, Held
<1> QED
  BY <1>1, <1>2, <1>3, <1>4, <1>5, <1>8, <1>10, <1>11, <1>12, <1>14, <1>15, <1>16, <1>17
     DEF Next, Runs, Flush
-----------------------------------------------------------------------------
(* Records are in the order of their calls *)

\* The records of thread t that are in the file and not yet acknowledged.
Out(t) == IF pc[t] \in {"sync", "signal"} THEN ToSet(batch[t]) ELSE {}

\* The records that have been, or may be, acknowledged.
Done == acked \cup signalled \cup UNION {Out(t) : t \in Procs}

\* Of two records, the later one was not acknowledged when the call of the
\* earlier one began; the records in gone apart.
Sorted(s, t, gone, b) ==
  \A i \in DOMAIN s, j \in DOMAIN t :
    i < j /\ {s[i], t[j]} \cap (gone \cup {Bad}) = {} => t[j] \notin b[s[i]]

\* What is on its way to the file is not acknowledged.
Unacked ==
  (ToSet(pending) \cup ToSet(buffer)) \cap Done = {} /\ \A t \in Procs : Held(t) \cap Done = {}

\* The acknowledged records are not written over, and on the disk they are
\* where they are in the file.
Behind == \A i \in DOMAIN file : file[i] \in Done \ retired => i <= pos

\* What is acknowledged and on the disk is in the file at the same place.
Agreed == \A i \in DOMAIN durable : durable[i] \in Done \ retired => i \in DOMAIN file /\ file[i] = durable[i]

\* File and disk are in order, each and one after the other.
InOrder ==
  /\ Sorted(file, file, retired, before) /\ Sorted(durable, durable, retired, before)
  /\ Sorted(file, durable, retired, before) /\ Sorted(durable, file, retired, before)

\* The invariant of real-time order.
Ordered ==
  mode # "relaxed" =>
    /\ Unacked /\ (mounted => Behind) /\ Agreed /\ InOrder
    /\ \A k \in 1..ops : before[k] \subseteq acked

\* Done is a set of records given out.
LEMMA DoneIs ==
  ASSUME Fresh
  PROVE  Done \subseteq 1..ops /\ Bad \notin Done
<1>1. \A t \in Procs : Out(t) \subseteq 1..ops
  BY DEF Fresh, Out
<1>2. Done \subseteq 1..ops
  BY <1>1 DEF Done, Fresh
<1>3. Bad \notin 1..ops
  BY DEF Bad
<1> QED BY <1>2, <1>3

\* Sorted, with more records gone.
LEMMA SortedStays ==
  ASSUME NEW s, NEW t, NEW gone, NEW more, NEW b, NEW c, NEW K, Sorted(s, t, gone, b),
         gone \subseteq more, ToSet(s) \ {Bad} \subseteq K, \A k \in K : c[k] = b[k]
  PROVE  Sorted(s, t, more, c)
<1> SUFFICES ASSUME NEW i \in DOMAIN s, NEW j \in DOMAIN t, i < j, {s[i], t[j]} \cap (more \cup {Bad}) = {}
             PROVE  t[j] \notin c[s[i]]
  BY DEF Sorted
<1>1. s[i] \in K
  BY DEF ToSet
<1>2. {s[i], t[j]} \cap (gone \cup {Bad}) = {}
  OBVIOUS
<1> QED BY <1>1, <1>2 DEF Sorted

\* A step that writes nothing to the file.
LEMMA OrderedStays ==
  ASSUME Unique, Ordered, mode # "relaxed", UNCHANGED <<mode, file, pos>>,
         durable' \in {durable, file}, mounted' => mounted, Done' \subseteq Done, retired \subseteq retired',
         Unacked', \A k \in 1..ops : before'[k] = before[k], \A k \in 1..ops' : before'[k] \subseteq acked'
  PROVE  Ordered'
<1>1. mounted' => Behind'
  BY DEF Ordered, Behind
<1>2. Agreed'
  BY DEF Ordered, Agreed
<1>3. InOrder'
  <2>1. ToSet(file) \ {Bad} \subseteq 1..ops /\ ToSet(durable) \ {Bad} \subseteq 1..ops
    BY DEF Unique, Fresh, Seen
  <2>2. /\ Sorted(file, file, retired, before) /\ Sorted(durable, durable, retired, before)
        /\ Sorted(file, durable, retired, before) /\ Sorted(durable, file, retired, before)
    BY DEF Ordered, InOrder
  <2>3. /\ Sorted(file, file, retired', before') /\ Sorted(durable, durable, retired', before')
        /\ Sorted(file, durable, retired', before') /\ Sorted(durable, file, retired', before')
    BY <2>1, <2>2, SortedStays
  <2> QED BY <2>3 DEF InOrder
<1> QED BY <1>1, <1>2, <1>3 DEF Ordered

\* Records that are not acknowledged are written to the file.
LEMMA PutSorted ==
  ASSUME Types, Unique, Behind, Agreed, InOrder, \A k \in 1..ops : before[k] \subseteq acked,
         NEW cells \in Seq(Op), ToSet(cells) \subseteq 1..ops, ToSet(cells) \cap Done = {},
         NEW f, f = Put(cells)
  PROVE  /\ Sorted(f, f, retired, before) /\ Sorted(durable, f, retired, before)
         /\ Sorted(f, durable, retired, before)
         /\ \A i \in DOMAIN f : f[i] \in Done \ retired => i \in DOMAIN file /\ i <= pos
         /\ \A i \in DOMAIN durable : durable[i] \in Done \ retired => i \in DOMAIN f /\ f[i] = durable[i]
<1> DEFINE Old(i) == i \in DOMAIN file /\ f[i] = file[i]
           New(i) == i > pos /\ f[i] \in 1..ops \ Done
<1>1. \A i \in DOMAIN f : Old(i) \/ f[i] = Bad \/ New(i)
  <2>1. \A i \in DOMAIN cells : cells[i] \in ToSet(cells)
    BY DEF ToSet
  <2> QED BY <2>1, PutCells DEF Types
<1>2. /\ pos \in Nat /\ DOMAIN f \subseteq Nat /\ DOMAIN file \subseteq Nat /\ DOMAIN durable \subseteq Nat
      /\ \A i \in DOMAIN file : i <= pos => i \in DOMAIN f /\ f[i] = file[i]
  <2>1. f \in Seq(0..MaxOps)
    BY PutCells DEF Types
  <2>2. /\ pos \in Nat /\ DOMAIN f \subseteq Nat /\ DOMAIN file \subseteq Nat
        /\ DOMAIN durable \subseteq Nat
    BY <2>1, LenProperties DEF Types
  <2>3. /\ DOMAIN file \subseteq DOMAIN f
        /\ \A i \in DOMAIN file : i <= pos => f[i] = file[i]
    BY PutCells DEF Types
  <2> QED BY <2>2, <2>3
<1>3. acked \subseteq Done /\ Bad \notin Done
  BY DoneIs DEF Done, Unique
<1>4. \A i \in DOMAIN file : file[i] # Bad => file[i] \in 1..ops
  BY DEF Unique, Fresh, Seen, ToSet
<1>5. \A i \in DOMAIN durable : durable[i] # Bad => durable[i] \in 1..ops
  BY DEF Unique, Fresh, Seen, ToSet
<1> HIDE DEF Old, New
<1>6. Sorted(f, f, retired, before)
  <2> SUFFICES ASSUME NEW i \in DOMAIN f, NEW j \in DOMAIN f, i < j, {f[i], f[j]} \cap (retired \cup {Bad}) = {},
                      f[j] \in before[f[i]]
               PROVE  FALSE
    BY DEF Sorted
  <2>1. f[i] \in 1..ops
    BY <1>1, <1>4 DEF Old, New
  <2>2. f[j] \in Done \ retired
    BY <1>3, <2>1
  <2>3. Old(j) /\ j <= pos
    BY <1>1, <2>2 DEF Old, New, Behind
  <2>4. Old(i)
    BY <1>1, <1>2, <2>3 DEF New
  <2> QED BY <2>3, <2>4 DEF InOrder, Sorted, Old
<1>7. Sorted(durable, f, retired, before)
  <2> SUFFICES ASSUME NEW i \in DOMAIN durable, NEW j \in DOMAIN f, i < j,
                      {durable[i], f[j]} \cap (retired \cup {Bad}) = {}, f[j] \in before[durable[i]]
               PROVE  FALSE
    BY DEF Sorted
  <2>1. f[j] \in Done
    BY <1>3, <1>5
  <2>2. Old(j)
    BY <1>1, <2>1 DEF New
  <2> QED BY <2>2 DEF InOrder, Sorted, Old
<1>8. Sorted(f, durable, retired, before)
  <2> SUFFICES ASSUME NEW i \in DOMAIN f, NEW j \in DOMAIN durable, i < j,
                      {f[i], durable[j]} \cap (retired \cup {Bad}) = {}, durable[j] \in before[f[i]]
               PROVE  FALSE
    BY DEF Sorted
  <2>1. f[i] \in 1..ops
    BY <1>1, <1>4 DEF Old, New
  <2>2. durable[j] \in Done \ retired
    BY <1>3, <2>1
  <2>3. j <= pos
    BY <2>2 DEF Agreed, Behind
  <2>4. Old(i)
    <3>1. i \in Nat /\ j \in Nat /\ f[i] # Bad
      BY <1>2
    <3>2. ~ (i > pos)
      BY <1>2, <2>3, <3>1
    <3> QED BY <1>1, <3>1, <3>2 DEF New
  <2> QED BY <2>4 DEF InOrder, Sorted, Old
<1>9. \A i \in DOMAIN f : f[i] \in Done \ retired => i \in DOMAIN file /\ i <= pos
  BY <1>1, <1>3 DEF Old, New, Behind
<1>10. \A i \in DOMAIN durable : durable[i] \in Done \ retired => i \in DOMAIN f /\ f[i] = durable[i]
  BY <1>2 DEF Agreed, Behind
<1> QED BY <1>6, <1>7, <1>8, <1>9, <1>10

\* A thread that does not move has out what it had out.
LEMMA OutStays ==
  ASSUME NEW u, pc'[u] = pc[u], batch'[u] = batch[u]
  PROVE  Out(u)' = Out(u)
BY DEF Out

\* Each step keeps the records in the order of their calls.
LEMMA OrderedNext ==
  ASSUME Types, Control, Unique, Ordered, [Next]_vars, mode # "relaxed"
  PROVE  Ordered'
<1> USE Threads, Empty
<1>0. /\ Places /\ pc = [u \in Procs |-> pc[u]] /\ \A w \in Writers : WriterOK(w)
      /\ \A t \in Procs : \A place : GoTo(t, place) =>
           /\ pc' = [u \in Procs |-> pc'[u]] /\ pc'[t] = place
           /\ \A u \in Procs : u # t => pc'[u] = pc[u]
      /\ \A t \in Procs : batch[t] \in Seq(Op)
      /\ Done \subseteq 1..ops /\ Bad \notin Done /\ ops + 1 \notin 1..ops
      /\ Unacked /\ (mounted => Behind) /\ Agreed /\ InOrder /\ \A k \in 1..ops : before[k] \subseteq acked
  <2>1. ops + 1 \notin 1..ops
    BY DEF Types
  <2> QED BY <2>1, Gone, DoneIs DEF Control, Places, Types, Unique, Ordered
<1>1. ASSUME NEW w \in Writers, Submit(w) PROVE Ordered'
  <2> DEFINE place == CASE mode = "immediate" -> "write"
                        [] mode = "group" -> "enqueue"
                        [] mode = "relaxed" -> "append"
             mine == IF mode = "immediate" THEN <<ops + 1>> ELSE <<>>
  <2>1. /\ pc[w] = "idle" /\ ops' = ops + 1 /\ rec' = [rec EXCEPT ![w] = ops + 1]
        /\ batch' = [batch EXCEPT ![w] = mine] /\ GoTo(w, place) /\ before' = Append(before, acked)
        /\ UNCHANGED <<mode, mounted, pending, buffer, pos, file, durable, acked, signalled, retired>>
    BY <1>1 DEF Submit, disk, session
  <2>2. place \in {"write", "enqueue"}
    BY <1>0 DEF AllModes, Types
  <2>3. ToSet(mine) \subseteq {ops + 1}
    BY DEF ToSet
  <2> HIDE DEF place, mine
  <2>4. rec'[w] = ops + 1 /\ batch'[w] = mine /\ pc'[w] = place
        /\ \A u \in Procs : u # w => pc'[u] = pc[u] /\ batch'[u] = batch[u] /\ rec'[u] = rec[u]
    BY <1>0, <2>1 DEF Types
  <2>5. Held(w)' \subseteq {ops + 1} /\ \A u \in Procs : u # w => Held(u)' = Held(u)
    BY <2>2, <2>3, <2>4, HeldStays DEF Held
  <2>6. \A u \in Procs : Out(u)' = Out(u)
    BY <2>1, <2>2, <2>4, OutStays DEF Out
  <2>7. Done' = Done
    BY <2>1, <2>6 DEF Done
  <2>8. Unacked'
    BY <1>0, <2>1, <2>5, <2>7 DEF Unacked
  <2>9. /\ \A k \in 1..ops : before'[k] = before[k]
        /\ \A k \in 1..ops' : before'[k] \subseteq acked'
    <3>1. acked \in SUBSET Op /\ before \in Seq(SUBSET Op) /\ Len(before) = ops
      BY DEF Types
    <3>2. (\A k \in 1..ops : before'[k] = before[k]) /\ before'[ops + 1] = acked
      BY <2>1, <3>1, AppendProperties
    <3>3. \A k \in 1..(ops + 1) : k \in 1..ops \/ k = ops + 1
      BY DEF Types
    <3> QED BY <1>0, <2>1, <3>2, <3>3
  <2> QED BY <2>1, <2>7, <2>8, <2>9, OrderedStays
<1>2. ASSUME NEW w \in Writers, Enqueue(w) PROVE Ordered'
  <2> DEFINE place == IF Len(pending') >= MaxPendingOps THEN "drain" ELSE "wait"
  <2>1. /\ pc[w] = "enqueue" /\ pending' = Append(pending, rec[w]) /\ GoTo(w, place)
        /\ UNCHANGED <<mode, mounted, buffer, pos, file, durable, rec, batch, ops, acked, signalled, retired, before>>
    BY <1>2 DEF Enqueue, disk, history, session
  <2>2. place \in {"drain", "wait"}
    OBVIOUS
  <2> HIDE DEF place
  <2>3. pc'[w] = place /\ \A u \in Procs : u # w => pc'[u] = pc[u]
    BY <1>0, <2>1
  <2>4. Held(w) = {rec[w]} /\ Held(w)' = {} /\ \A u \in Procs : u # w => Held(u)' = Held(u)
    BY <2>1, <2>2, <2>3, HeldStays DEF Held
  <2>5. \A u \in Procs : Out(u)' = Out(u)
    BY <2>1, <2>2, <2>3, OutStays DEF Out
  <2>6. Done' = Done
    BY <2>1, <2>5 DEF Done
  <2>7. ToSet(pending') = ToSet(pending) \cup {rec[w]}
    <3>1. 1..ops \subseteq Op
      BY LimitAssumption DEF Types, Op
    <3>2. rec[w] \in Op
      BY <2>4, <3>1 DEF Unique, Fresh
    <3> QED BY <2>1, <3>2, Appended DEF Types
  <2>8. Unacked'
    BY <1>0, <2>1, <2>4, <2>6, <2>7 DEF Unacked
  <2> QED BY <1>0, <2>1, <2>6, <2>8, OrderedStays
<1>3. ASSUME NEW w \in Writers, Wake(w) PROVE Ordered'
  <2>1. /\ pc[w] = "wait" /\ rec[w] \in signalled /\ GoTo(w, "idle") /\ acked' = acked \cup {rec[w]}
        /\ UNCHANGED <<mode, mounted, pending, buffer, pos, file, durable, rec, batch, ops, signalled, retired, before>>
    BY <1>3 DEF Wake, Answer, disk, session
  <2>2. \A u \in Procs : Held(u)' = Held(u) /\ Out(u)' = Out(u)
    BY <1>0, <2>1, HeldStays, OutStays DEF Held, Out
  <2>3. Done' = Done
    BY <2>1, <2>2 DEF Done
  <2>4. Unacked'
    BY <1>0, <2>1, <2>2, <2>3 DEF Unacked
  <2>5. \A k \in 1..ops' : before'[k] \subseteq acked'
    BY <1>0, <2>1
  <2> QED BY <2>1, <2>3, <2>4, <2>5, OrderedStays
<1>4. ASSUME NEW w \in Writers, AppendRelaxed(w) PROVE FALSE
  BY <1>0, <1>4 DEF AppendRelaxed, WriterOK, AllModes, Types
<1>5. ASSUME NEW t \in Procs, Drain(t) PROVE Ordered'
  <2> DEFINE place == IF pending = <<>> THEN FlushDone(t) ELSE "write"
  <2>1. /\ pc[t] = "drain" /\ pending' = <<>> /\ GoTo(t, place)
        /\ batch' = [batch EXCEPT ![t] = pending]
        /\ UNCHANGED <<mode, mounted, buffer, pos, file, durable, rec, ops, acked, signalled, retired, before>>
    BY <1>5 DEF Drain, disk, history, session
  <2>2. place \in {"write", "wait", "idle", "truncate", "join"}
    BY DEF FlushDone, Types
  <2> HIDE DEF place
  <2>3. pc'[t] = place /\ batch'[t] = pending
        /\ \A u \in Procs : u # t => pc'[u] = pc[u] /\ batch'[u] = batch[u] /\ rec'[u] = rec[u]
    BY <1>0, <2>1 DEF Types
  <2>4. Held(t)' \subseteq ToSet(pending) /\ \A u \in Procs : u # t => Held(u)' = Held(u)
    BY <2>2, <2>3, HeldStays DEF Held
  <2>5. \A u \in Procs : Out(u)' = Out(u)
    BY <2>1, <2>2, <2>3, OutStays DEF Out
  <2>6. Done' = Done
    BY <2>1, <2>5 DEF Done
  <2>7. Unacked'
    BY <1>0, <2>1, <2>4, <2>6 DEF Unacked
  <2> QED BY <1>0, <2>1, <2>6, <2>7, OrderedStays
<1>6. ASSUME NEW t \in Procs, pc[t] \in {"sync", "signal"}, t \in Procs, Held(t)' = {}, Done' \subseteq Done,
             \A u \in Procs : u # t => pc'[u] = pc[u] /\ batch'[u] = batch[u] /\ rec'[u] = rec[u],
             acked \subseteq acked', durable' \in {durable, file},
             UNCHANGED <<mode, mounted, pending, buffer, file, pos, ops, retired, before>>
      PROVE  Ordered'
  <2>1. \A u \in Procs : u # t => Held(u)' = Held(u)
    BY <1>6, HeldStays
  <2>2. Unacked'
    BY <1>0, <1>6, <2>1 DEF Unacked
  <2>3. \A k \in 1..ops' : before'[k] \subseteq acked'
    BY <1>0, <1>6
  <2> QED BY <1>6, <2>2, <2>3, OrderedStays
<1>7. ASSUME NEW t \in Procs, Sync(t) PROVE Ordered'
  <2>1. /\ pc[t] = "sync" /\ GoTo(t, "signal") /\ durable' = file
        /\ UNCHANGED <<mode, mounted, pending, buffer, pos, file, rec, batch, ops, acked, signalled, retired, before>>
    BY <1>7 DEF Sync, history, session
  <2>2. pc'[t] = "signal" /\ \A u \in Procs : u # t => pc'[u] = pc[u]
    BY <1>0, <2>1
  <2>3. Held(t)' = {}
    BY <2>2 DEF Held
  <2>4. \A u \in Procs : Out(u)' = Out(u)
    BY <2>1, <2>2 DEF Out
  <2>5. Done' = Done
    BY <2>1, <2>4 DEF Done
  <2> QED BY <1>6, <2>1, <2>2, <2>3, <2>5
<1>8. ASSUME NEW t \in Procs, Signal(t) PROVE Ordered'
  <2>1. /\ pc[t] = "signal" /\ batch' = [batch EXCEPT ![t] = <<>>]
        /\ UNCHANGED <<mode, mounted, pending, buffer, pos, file, durable, rec, ops, retired, before>>
    BY <1>8 DEF Signal, disk, session
  <2>2. batch'[t] = <<>> /\ \A u \in Procs : u # t => batch'[u] = batch[u] /\ rec'[u] = rec[u]
    BY <1>0, <2>1 DEF Types
  <2>3. CASE mode = "immediate"
    <3>1. t \in Writers
      BY <2>1, <2>3, Flushing DEF Calling
    <3>2. GoTo(t, "idle") /\ acked' = acked \cup {rec[t]} /\ UNCHANGED signalled /\ batch[t] = <<rec[t]>>
      BY <1>0, <1>8, <2>1, <2>3, <3>1 DEF Signal, Answer, WriterOK
    <3>3. pc'[t] = "idle" /\ \A u \in Procs : u # t => pc'[u] = pc[u]
      BY <1>0, <3>2
    <3>4. Held(t)' = {} /\ \A u \in Procs : Out(u)' \subseteq Out(u)
      BY <2>2, <3>3 DEF Held, Out
    <3>5. rec[t] \in Out(t)
      BY <2>1, <3>2 DEF Out, ToSet
    <3>6. Done' \subseteq Done
      BY <3>2, <3>4, <3>5 DEF Done
    <3> QED BY <1>6, <2>1, <2>2, <3>2, <3>3, <3>4, <3>6
  <2>4. CASE mode # "immediate"
    <3>1. GoTo(t, FlushDone(t)) /\ signalled' = signalled \cup ToSet(batch[t]) /\ UNCHANGED acked
      BY <1>8, <2>4 DEF Signal
    <3>2. FlushDone(t) \in {"wait", "idle", "truncate", "join"}
      BY DEF FlushDone, Types
    <3>3. pc'[t] \in {"wait", "idle", "truncate", "join"} /\ \A u \in Procs : u # t => pc'[u] = pc[u]
      BY <1>0, <3>1, <3>2
    <3>4. Held(t)' = {} /\ \A u \in Procs : Out(u)' \subseteq Out(u)
      BY <2>2, <3>3 DEF Held, Out
    <3>5. ToSet(batch[t]) = Out(t)
      BY <2>1 DEF Out
    <3>6. Done' \subseteq Done
      BY <3>1, <3>4, <3>5 DEF Done
    <3> QED BY <1>6, <2>1, <2>2, <3>1, <3>3, <3>4, <3>6
  <2> QED BY <2>3, <2>4
<1>9. ASSUME Tick \/ Checkpoint \/ Close \/ Join \/ Replay PROVE Ordered'
  <2>1. /\ UNCHANGED <<mode, mounted, pending, buffer, pos, file, durable, rec, batch, ops, acked, signalled, before>>
        /\ retired \subseteq retired'
        /\ \E t \in {Owner, Flusher} : pc[t] \in {"idle", "join", "recover"} /\
             \E place \in {"drain", "closed", "failed"} : GoTo(t, place)
    BY <1>9 DEF Tick, Checkpoint, Close, Join, Replay, disk, history, session
  <2>2. \A u \in Procs : Held(u)' = Held(u) /\ Out(u)' = Out(u)
    <3>1. PICK t \in {Owner, Flusher} : pc[t] \in {"idle", "join", "recover"} /\
             \E place \in {"drain", "closed", "failed"} : GoTo(t, place)
      BY <2>1
    <3>2. pc'[t] \in {"drain", "closed", "failed"} /\ \A u \in Procs : u # t => pc'[u] = pc[u]
      BY <1>0, <3>1
    <3> QED BY <2>1, <3>1, <3>2 DEF Held, Out
  <2>3. Done' = Done
    BY <2>1, <2>2 DEF Done
  <2>4. Unacked'
    BY <1>0, <2>1, <2>2, <2>3 DEF Unacked
  <2> QED BY <1>0, <2>1, <2>3, <2>4, OrderedStays
<1>10. ASSUME NEW t \in Procs, pc[t] = "write"
       PROVE  /\ Held(t) = ToSet(batch[t]) /\ Out(t) = {}
              /\ buffer \o batch[t] \in Seq(Op)
              /\ ToSet(buffer \o batch[t]) = ToSet(buffer) \cup ToSet(batch[t])
              /\ ToSet(buffer \o batch[t]) \subseteq 1..ops /\ ToSet(buffer \o batch[t]) \cap Done = {}
              /\ mounted /\ Behind
  <2>1. Held(t) = ToSet(batch[t]) /\ Out(t) = {}
    BY <1>10 DEF Held, Out
  <2>2. /\ buffer \o batch[t] \in Seq(Op)
        /\ ToSet(buffer \o batch[t]) = ToSet(buffer) \cup ToSet(batch[t])
    BY <1>0, Concatenated DEF Types
  <2>3. mounted
    BY <1>10, Flushing DEF Calling
  <2> QED BY <1>0, <2>1, <2>2, <2>3 DEF Unacked, Unique, Fresh
<1>11. ASSUME NEW t \in Procs, WriteOut(t) PROVE Ordered'
  <2> DEFINE all == buffer \o batch[t]
  <2>1. /\ pc[t] = "write" /\ GoTo(t, "sync") /\ file' = Put(all) /\ buffer' = <<>> /\ pos' = pos + Len(all)
        /\ UNCHANGED <<mode, mounted, pending, durable, rec, batch, ops, acked, signalled, retired, before>>
    BY <1>11 DEF WriteOut, history, session
  <2>2. pc'[t] = "sync" /\ \A u \in Procs : u # t => pc'[u] = pc[u]
    BY <1>0, <2>1
  <2>3. /\ Held(t) = ToSet(batch[t]) /\ Out(t) = {} /\ all \in Seq(Op)
        /\ ToSet(all) \subseteq 1..ops /\ ToSet(all) \cap Done = {} /\ mounted /\ Behind
    BY <1>10, <2>1
  <2> HIDE DEF all
  <2>4. Out(t)' = Held(t) /\ Held(t)' = {} /\ \A u \in Procs : u # t => Out(u)' = Out(u) /\ Held(u)' = Held(u)
    BY <2>1, <2>2, <2>3 DEF Out, Held
  <2>5. Done' = Done \cup Held(t)
    <3>1. UNION {Out(u)' : u \in Procs} = (UNION {Out(u) : u \in Procs}) \cup Held(t)
      BY <2>3, <2>4
    <3> QED BY <2>1, <3>1 DEF Done
  <2>6. Unacked'
    BY <1>0, <2>1, <2>4, <2>5 DEF Unacked, Unique, Apart
  <2>7. /\ Sorted(file', file', retired, before) /\ Sorted(durable, file', retired, before)
        /\ Sorted(file', durable, retired, before)
        /\ \A i \in DOMAIN file' : file'[i] \in Done \ retired => i \in DOMAIN file /\ i <= pos
        /\ \A i \in DOMAIN durable : durable[i] \in Done \ retired => i \in DOMAIN file' /\ file'[i] = durable[i]
    BY <1>0, <2>1, <2>3, PutSorted
  <2>8. InOrder'
    BY <1>0, <2>1, <2>7 DEF InOrder
  <2>9. \A r \in Held(t) : r # Bad /\ r \notin ToSet(file) /\ r \notin ToSet(durable)
    <3>1. Bad \notin 1..ops
      BY DEF Bad
    <3> QED BY <3>1 DEF Unique, Fresh, Apart, Seen
  <2>10. Agreed'
    BY <2>1, <2>5, <2>7, <2>9 DEF Agreed, ToSet
  <2>11. Behind'
    <3> SUFFICES ASSUME NEW i \in DOMAIN file', file'[i] \in Done' \ retired' PROVE i <= pos'
      BY DEF Behind
    <3>1. file' \in Seq(0..MaxOps) /\ DOMAIN all = 1..Len(all) /\ Len(all) \in Nat /\ pos \in Nat
      BY <2>1, <2>3, PutCells, LenProperties DEF Types
    <3>2. i \in Nat
      BY <3>1, LenProperties
    <3>3. CASE file'[i] \in Done
      BY <2>1, <2>7, <3>1, <3>2, <3>3
    <3>4. CASE file'[i] \in Held(t)
      <4>1. i - pos \in DOMAIN all
        <5>1. ~ (i \in DOMAIN file /\ file'[i] = file[i]) /\ file'[i] # Bad
          BY <2>9, <3>4 DEF ToSet
        <5> QED BY <2>1, <2>3, <5>1, PutCells DEF Types
      <4> QED BY <2>1, <3>1, <3>2, <4>1
    <3> QED BY <2>5, <3>3, <3>4
  <2> QED BY <1>0, <2>1, <2>6, <2>8, <2>10, <2>11 DEF Ordered
<1>12. ASSUME NEW t \in Procs, Fail(t) PROVE Ordered'
  <2>1. /\ GoTo(t, FlushFailed(t)) /\ batch' = [batch EXCEPT ![t] = <<>>]
        /\ UNCHANGED <<mode, mounted, pending, durable, rec, ops, acked, signalled, retired, before>>
    BY <1>12 DEF Fail, session
  <2>2. /\ pc'[t] \in {"idle", "closed"} /\ batch'[t] = <<>>
        /\ \A u \in Procs : u # t => pc'[u] = pc[u] /\ batch'[u] = batch[u] /\ rec'[u] = rec[u]
    BY <1>0, <2>1 DEF FlushFailed, Types
  <2>3. Held(t)' = {} /\ Out(t)' = {} /\ \A u \in Procs : u # t => Out(u)' = Out(u) /\ Held(u)' = Held(u)
    BY <2>1, <2>2 DEF Out, Held
  <2>4. Done' \subseteq Done
    <3>1. \A u \in Procs : Out(u)' \subseteq Out(u)
      BY <2>3
    <3> QED BY <2>1, <3>1 DEF Done
  <2> DEFINE all == buffer \o batch[t]
  <2>5. CASE pc[t] = "write" /\ \E k \in 0..Len(all) :
               /\ file' = Put(SubSeq(all, 1, k)) /\ pos' = pos + k /\ buffer' = SubSeq(all, k + 1, Len(all))
    <3>1. PICK k \in 0..Len(all) :
               /\ file' = Put(SubSeq(all, 1, k)) /\ pos' = pos + k /\ buffer' = SubSeq(all, k + 1, Len(all))
      BY <2>5
    <3>2. /\ all \in Seq(Op) /\ ToSet(all) \subseteq 1..ops /\ ToSet(all) \cap Done = {} /\ mounted /\ Behind
      BY <1>10, <2>5
    <3> HIDE DEF all
    <3> DEFINE cells == SubSeq(all, 1, k)
    <3>3. Parts(all, k, cells, buffer') /\ file' = Put(cells)
      BY <3>1 DEF Parts
    <3> HIDE DEF cells
    <3>4. cells \in Seq(Op) /\ ToSet(cells) \subseteq ToSet(all) /\ ToSet(buffer') \subseteq ToSet(all)
      BY <3>2, <3>3, Split
    <3>5. /\ Sorted(file', file', retired, before) /\ Sorted(durable, file', retired, before)
          /\ Sorted(file', durable, retired, before)
          /\ \A i \in DOMAIN file' : file'[i] \in Done \ retired => i \in DOMAIN file /\ i <= pos
          /\ \A i \in DOMAIN durable : durable[i] \in Done \ retired => i \in DOMAIN file' /\ file'[i] = durable[i]
      BY <1>0, <3>2, <3>3, <3>4, PutSorted
    <3>6. Unacked'
      BY <1>0, <2>1, <2>3, <2>4, <3>2, <3>4 DEF Unacked
    <3>7. InOrder'
      BY <1>0, <2>1, <3>5 DEF InOrder
    <3>8. Agreed'
      BY <2>1, <2>4, <3>5 DEF Agreed
    <3>9. Behind'
      <4>1. pos \in Nat /\ k \in Nat /\ \A i \in DOMAIN file : i \in Nat
        BY <3>2, LenProperties DEF Types
      <4>2. \A i \in DOMAIN file : i <= pos => i <= pos + k
        BY <4>1
      <4> QED BY <2>1, <2>4, <3>1, <3>5, <4>2 DEF Behind
    <3> QED BY <1>0, <2>1, <3>6, <3>7, <3>8, <3>9 DEF Ordered
  <2>6. CASE pc[t] = "sync" /\ UNCHANGED <<buffer, pos, file>>
    BY <1>6, <2>1, <2>2, <2>3, <2>4, <2>6
  <2> QED BY <1>12, <2>5, <2>6 DEF Fail
<1>13. ASSUME Open \/ Truncate \/ Reseek \/ CheckpointFails
       PROVE  /\ UNCHANGED <<mode, pending, rec, batch, ops, acked, signalled, before>>
              /\ Done' = Done /\ (ToSet(buffer') \subseteq ToSet(buffer) => Unacked')
              /\ pc[Owner] \in {"closed", "truncate", "reseek"}
  <2>1. /\ UNCHANGED <<mode, pending, rec, batch, ops, acked, signalled, before>>
        /\ pc[Owner] \in {"closed", "truncate", "reseek"}
        /\ \E place \in {"recover", "reseek", "idle", "failed"} : GoTo(Owner, place)
    BY <1>13 DEF Open, Truncate, Reseek, CheckpointFails, history
  <2>2. pc'[Owner] \in {"recover", "reseek", "idle", "failed"} /\ \A u \in Procs : u # Owner => pc'[u] = pc[u]
    BY <1>0, <2>1
  <2>3. \A u \in Procs : Held(u)' = Held(u) /\ Out(u)' = Out(u)
    BY <2>1, <2>2 DEF Held, Out
  <2>4. Done' = Done
    BY <2>1, <2>3 DEF Done
  <2>5. ToSet(buffer') \subseteq ToSet(buffer) => Unacked'
    BY <1>0, <2>1, <2>3, <2>4 DEF Unacked
  <2> QED BY <2>1, <2>4, <2>5
<1>14. /\ buffer \in Seq(Op) /\ ToSet(buffer) \subseteq 1..ops /\ ToSet(buffer) \cap Done = {}
  BY <1>0 DEF Types, Unacked, Unique, Fresh
<1>15. ASSUME Open PROVE Ordered'
  <2>1. /\ mounted' = FALSE /\ file' = Put(buffer) /\ buffer' = <<>> /\ pos' = 0
        /\ UNCHANGED <<durable, retired>>
    BY <1>15 DEF Open, history
  <2>2. CASE ~mounted
    <3>1. buffer = <<>> /\ pos = 0
      BY <2>2 DEF Control, Recovering
    <3>2. file' = file
      BY <2>1, <3>1 DEF Put
    <3> QED BY <1>0, <1>13, <1>15, <2>1, <3>1, <3>2, OrderedStays
  <2>3. CASE mounted
    <3>1. /\ Sorted(file', file', retired, before) /\ Sorted(durable, file', retired, before)
          /\ Sorted(file', durable, retired, before)
          /\ \A i \in DOMAIN durable : durable[i] \in Done \ retired => i \in DOMAIN file' /\ file'[i] = durable[i]
      BY <1>0, <1>14, <2>1, <2>3, PutSorted
    <3>2. InOrder' /\ Agreed'
      BY <1>0, <1>13, <1>15, <2>1, <3>1 DEF InOrder, Agreed
    <3> QED BY <1>0, <1>13, <1>15, <2>1, <3>2 DEF Ordered
  <2> QED BY <2>2, <2>3
<1>16. ASSUME Truncate PROVE Ordered'
  <2>1. /\ file' = <<>> /\ retired' = retired \cup (ToSet(file) \ {Bad})
        /\ UNCHANGED <<mounted, durable, buffer>>
    BY <1>16 DEF Truncate, session
  <2>2. Behind'
    BY <2>1 DEF Behind
  <2>3. Agreed'
    <3>1. \A i \in DOMAIN durable : durable[i] \in Done \ retired => durable[i] \in ToSet(file) \ {Bad}
      BY <1>0 DEF Agreed, ToSet
    <3> QED BY <1>13, <1>16, <2>1, <3>1 DEF Agreed
  <2>4. InOrder'
    <3>1. ToSet(durable) \ {Bad} \subseteq 1..ops
      BY DEF Unique, Fresh, Seen
    <3>2. Sorted(durable, durable, retired, before)
      BY <1>0 DEF InOrder
    <3>3. Sorted(durable, durable, retired', before)
      BY <2>1, <3>1, <3>2, SortedStays
    <3> QED BY <1>13, <1>16, <2>1, <3>3 DEF InOrder, Sorted
  <2> QED BY <1>0, <1>13, <1>16, <2>1, <2>2, <2>3, <2>4 DEF Ordered
<1>17. ASSUME pc[Owner] = "reseek"
       PROVE  /\ Sorted(Put(buffer), Put(buffer), retired, before) /\ Sorted(durable, Put(buffer), retired, before)
              /\ Sorted(Put(buffer), durable, retired, before)
              /\ \A i \in DOMAIN Put(buffer) : Put(buffer)[i] \notin Done \ retired
              /\ \A i \in DOMAIN durable : durable[i] \notin Done \ retired
  <2>1. file = <<>>
    BY <1>17 DEF Control, Locking
  <2>2. Behind
    BY <2>1 DEF Behind
  <2>3. \A i \in DOMAIN durable : durable[i] \notin Done \ retired
    BY <1>0, <2>1 DEF Agreed
  <2> DEFINE f == Put(buffer)
  <2>4. f = Put(buffer)
    OBVIOUS
  <2> HIDE DEF f
  <2>5. /\ Sorted(f, f, retired, before) /\ Sorted(durable, f, retired, before)
        /\ Sorted(f, durable, retired, before)
        /\ \A i \in DOMAIN f : f[i] \in Done \ retired => i \in DOMAIN file
    BY <1>0, <1>14, <2>2, <2>4, PutSorted
  <2> QED BY <2>1, <2>3, <2>4, <2>5
<1>18. ASSUME Reseek PROVE Ordered'
  <2>1. /\ pc[Owner] = "reseek" /\ file' = Put(buffer) /\ durable' = file' /\ buffer' = <<>>
        /\ UNCHANGED retired
    BY <1>18 DEF Reseek, history
  <2>2. InOrder' /\ Behind' /\ Agreed'
    BY <1>13, <1>17, <1>18, <2>1 DEF InOrder, Behind, Agreed
  <2> QED BY <1>0, <1>13, <1>18, <2>1, <2>2 DEF Ordered
<1>19. ASSUME CheckpointFails PROVE Ordered'
  <2>1. UNCHANGED <<mounted, durable, retired>>
    BY <1>19 DEF CheckpointFails, session
  <2>2. CASE UNCHANGED <<file, buffer, pos>>
    BY <1>0, <1>13, <1>19, <2>1, <2>2, OrderedStays
  <2>3. CASE pc[Owner] = "reseek" /\ file' = Put(buffer) /\ buffer' = <<>>
    <3>1. InOrder' /\ Behind' /\ Agreed'
      BY <1>0, <1>13, <1>17, <1>19, <2>1, <2>3 DEF InOrder, Behind, Agreed
    <3> QED BY <1>0, <1>13, <1>19, <2>1, <2>3, <3>1 DEF Ordered
  <2> QED BY <1>19, <2>2, <2>3 DEF CheckpointFails
<1>20. ASSUME PowerFailure PROVE Ordered'
  <2>1. /\ \E f \in Outcomes : file' = f /\ durable' = f
        /\ pc' = [t \in Procs |-> IF t = Owner THEN "closed" ELSE "idle"]
        /\ batch' = [t \in Procs |-> <<>>]
        /\ mounted' = FALSE /\ pending' = <<>> /\ buffer' = <<>> /\ signalled' = {}
        /\ UNCHANGED <<mode, ops, acked, retired, before>>
    BY <1>20 DEF PowerFailure
  <2>2. \A u \in Procs : Held(u)' = {} /\ Out(u)' = {}
    BY <2>1 DEF Held, Out
  <2>3. Unacked'
    BY <2>1, <2>2 DEF Unacked
  <2>4. /\ durable' = file'
        /\ \A i \in DOMAIN file' : \/ i \in DOMAIN file /\ file'[i] = file[i]
                                   \/ i \in DOMAIN durable /\ file'[i] = durable[i]
                                   \/ file'[i] = Bad
    BY <2>1, OutcomesAre
  <2>5. Sorted(file', file', retired, before)
    BY <1>0, <2>4 DEF InOrder, Sorted
  <2>6. InOrder' /\ Agreed'
    BY <2>1, <2>4, <2>5 DEF InOrder, Agreed
  <2> QED BY <1>0, <2>1, <2>3, <2>6 DEF Ordered
<1>21. CASE UNCHANGED vars
  <2>1. /\ UNCHANGED <<mode, mounted, pending, buffer, pos, file, durable, rec, pc, batch, ops, acked, signalled,
                       retired, before>>
    BY <1>21 DEF vars, disk, session, threads, history
  <2>2. \A u \in Procs : Held(u)' = Held(u) /\ Out(u)' = Out(u)
    BY <2>1 DEF Held, Out
  <2>3. Done' = Done
    BY <2>1, <2>2 DEF Done
  <2>4. Unacked'
    BY <1>0, <2>1, <2>2, <2>3 DEF Unacked
  <2> QED BY <1>0, <2>1, <2>3, <2>4, OrderedStays
<1> QED
  BY <1>1, <1>2, <1>3, <1>4, <1>5, <1>7, <1>8, <1>9, <1>11, <1>12, <1>15, <1>16, <1>18, <1>19,
     <1>20, <1>21 DEF Next, Runs, Flush
-----------------------------------------------------------------------------
(* The properties of every behaviour *)

\* The inductive invariant of both theorems.
Inv == Types /\ Control /\ Unique /\ Ordered

\* The initial states satisfy the invariant.
LEMMA InvInit == ASSUME Init PROVE Inv
<1> USE DEF Init, session
<1>1. Types
  <2>1. <<>> \in Seq(Op) /\ <<>> \in Seq(0..MaxOps) /\ <<>> \in Seq(SUBSET Op) /\ Len(<<>>) = 0
    BY EmptySeq
  <2>2. MaxOps \in Nat /\ 0 \in 0..MaxOps /\ Modes \subseteq AllModes
    BY LimitAssumption, ModesAssumption
  <2> QED BY <2>1, <2>2 DEF Types, Bad
<1>2. ToSet(<<>>) = {} /\ \A s : Aligned(<<>>, s) /\ Aligned(s, <<>>)
  BY Empty
<1>3. \A t \in Procs : pc[t] = (IF t = Owner THEN "closed" ELSE "idle") /\ batch[t] = <<>>
  OBVIOUS
<1>4. Control
  <2>1. Places
    BY <1>1, <1>3, Threads DEF Places, WriterOK
  <2>2. Locking /\ Queueing /\ Recovering
    BY <1>2, <1>3, Threads DEF Locking, Queueing, Recovering
  <2> QED BY <2>1, <2>2 DEF Control
<1>5. \A t \in Procs : Held(t) = {} /\ Out(t) = {}
  BY <1>3 DEF Held, Out
<1>6. Unique
  <2>1. Fresh /\ Apart
    BY <1>2, <1>3, <1>5 DEF Fresh, Apart, Seen
  <2> QED BY <1>2, <1>3, <2>1 DEF Unique
<1>7. Ordered
  <2>1. DOMAIN file = {} /\ DOMAIN durable = {}
    OBVIOUS
  <2>2. Unacked
    BY <1>2, <1>5 DEF Unacked
  <2>3. Behind /\ Agreed /\ InOrder
    BY <2>1 DEF Behind, Agreed, InOrder, Sorted
  <2> QED BY <2>2, <2>3 DEF Ordered
<1> QED BY <1>1, <1>4, <1>6, <1>7 DEF Inv

\* A journal keeps its durability mode.
LEMMA ModeStays == [Next]_vars => mode' = mode
BY DEF Next, Runs, Flush, Drain, WriteOut, Sync, Signal, Enqueue, Wake, AppendRelaxed, Tick, Open, Replay,
       Truncate, Reseek, Join, Fail, Submit, Checkpoint, CheckpointFails, Close, PowerFailure, vars

\* Each step keeps the invariant.
LEMMA InvNext == ASSUME Inv, [Next]_vars PROVE Inv'
<1>1. mode # "relaxed" => ToSet(pending) \cap signalled = {}
  BY DEF Inv, Ordered, Unacked, Done
<1>2. mode' = mode
  BY ModeStays
<1>3. Types' /\ Control' /\ Unique'
  BY <1>1, TypesNext, ControlNext, UniqueNext DEF Inv
<1>4. Ordered'
  <2>1. CASE mode = "relaxed"
    BY <1>2, <2>1 DEF Ordered
  <2>2. CASE mode # "relaxed"
    BY <2>2, OrderedNext DEF Inv
  <2> QED BY <2>1, <2>2
<1> QED BY <1>3, <1>4 DEF Inv

\* The invariant holds in every reachable state.
LEMMA Always == Spec => []Inv
BY InvInit, InvNext, PTL DEF Spec

\* A record is written once, even when its flush failed half-way: nothing is
\* written again by write_transaction, flush_pending, checkpoint or a seek that
\* finds records in the buffer, in any mode and whatever fails.
THEOREM OnceInTheFile == Spec => []WrittenOnce
<1>1. ASSUME Inv PROVE WrittenOnce
  <2>1. TypeOK
    BY <1>1 DEF Inv, Types, TypeOK
  <2>2. Aligned(file, file)
    BY <1>1 DEF Inv, Unique
  <2> QED BY <2>1, <2>2 DEF WrittenOnce, Aligned
<1> QED BY <1>1, Always, PTL

\* Outside Relaxed mode the records stand in the file in an order real time
\* allows, although batches are drained and written out by different threads
\* under different locks.
THEOREM FileIsInOrder == Spec => []RealTimeOrder
<1>1. ASSUME Inv PROVE RealTimeOrder
  BY <1>1 DEF Inv, Ordered, InOrder, Sorted, RealTimeOrder
<1> QED BY <1>1, Always, PTL
-----------------------------------------------------------------------------
(* Acknowledged records stay readable *)

\* The records of thread t that are synced and not yet acknowledged.
Sure(t) == IF pc[t] = "signal" THEN ToSet(batch[t]) ELSE {}

\* The records that have been, or may now be, acknowledged.
Synced == acked \cup signalled \cup UNION {Sure(t) : t \in Procs}

\* Up to cell i the disk holds what the file holds, and all of it parses.
Clear(i) == \A k \in 1..i : durable[k] # Bad /\ k \in DOMAIN file /\ file[k] = durable[k]

\* No hole before the place where the next record goes.
NoHole == \A i \in 1..pos : i \in DOMAIN file /\ file[i] # Bad

\* A synced record is on the disk, with nothing unreadable ahead of it.
SyncedKept == \A r \in Synced \ retired : \E i \in DOMAIN durable : durable[i] = r /\ Clear(i)

\* What is being synced is in the file.
Arrived ==
  \A t \in Procs : pc[t] = "sync" =>
    \A r \in ToSet(batch[t]) : \E i \in 1..pos : i \in DOMAIN file /\ file[i] = r

\* A synced record is on the disk, in the file as on the disk, with nothing
\* ahead of it that does not parse.
Solid ==
  mode # "relaxed" =>
    /\ pc[Owner] # "reseek" => NoHole
    /\ pc[Owner] = "reseek" => Synced \subseteq retired
    /\ SyncedKept /\ Arrived

\* Outside Relaxed mode: a checkpoint has truncated the file, and the flush that
\* its seek begins with fails: the handle stays where it was, past the end.
SeekFails ==
  /\ mode # "relaxed"
  /\ CheckpointFails /\ pc[Owner] = "reseek" /\ buffer # <<>> /\ UNCHANGED buffer

\* A thread that does not move is sure of what it was sure of.
LEMMA SureStays ==
  ASSUME NEW u, pc'[u] = pc[u], batch'[u] = batch[u]
  PROVE  Sure(u)' = Sure(u)
BY DEF Sure

\* What is synced has been written.
LEMMA SyncedDone == Synced \subseteq Done
<1>1. \A t \in Procs : Sure(t) \subseteq Out(t)
  BY DEF Sure, Out
<1> QED BY <1>1 DEF Synced, Done

\* A step that leaves the file and the disk.
LEMMA SolidStays ==
  ASSUME Solid, mode # "relaxed", UNCHANGED <<mode, file, pos, durable>>, Synced' \subseteq Synced,
         retired \subseteq retired', pc'[Owner] = "reseek" <=> pc[Owner] = "reseek",
         \A t \in Procs : pc'[t] = "sync" => pc[t] = "sync" /\ batch'[t] = batch[t]
  PROVE  Solid'
<1>1. pc'[Owner] # "reseek" => NoHole'
  BY DEF Solid, NoHole
<1>2. pc'[Owner] = "reseek" => Synced' \subseteq retired'
  BY DEF Solid
<1>3. SyncedKept'
  BY DEF Solid, SyncedKept, Clear
<1>4. Arrived'
  BY DEF Solid, Arrived
<1> QED BY <1>1, <1>2, <1>3, <1>4 DEF Solid

\* Records are written at the handle, which is past all that is synced.
LEMMA PutSolid ==
  ASSUME Types, Behind, NoHole, SyncedKept, NEW cells \in Seq(Op), NEW f, f = Put(cells), file' = f,
         UNCHANGED <<durable, retired>>, Synced' \subseteq Synced
  PROVE  /\ \A i \in 1..pos + Len(cells) : i \in DOMAIN f /\ f[i] # Bad
         /\ SyncedKept'
         /\ \A r \in ToSet(cells) : \E i \in 1..pos + Len(cells) : i \in DOMAIN f /\ f[i] = r
<1>1. /\ DOMAIN file \subseteq DOMAIN f
      /\ \A i \in DOMAIN file : i <= pos => f[i] = file[i]
      /\ \A i \in DOMAIN cells : pos + i \in DOMAIN f /\ f[pos + i] = cells[i]
  BY PutCells DEF Types
<1>2. /\ DOMAIN cells = 1..Len(cells) /\ Len(cells) \in Nat /\ pos \in Nat
      /\ \A i \in DOMAIN cells : cells[i] \in Op /\ cells[i] # Bad
  <2>1. \A i \in 1..Len(cells) : cells[i] \in Op
    BY ElementOfSeq
  <2>2. \A r \in Op : r # Bad
    BY LimitAssumption DEF Op, Bad
  <2> QED BY <2>1, <2>2, LenProperties DEF Types
<1>3. ASSUME NEW i \in 1..pos + Len(cells) PROVE i \in DOMAIN f /\ f[i] # Bad
  <2>1. CASE i <= pos
    <3>1. i \in 1..pos
      BY <1>2, <2>1
    <3> QED BY <1>1, <2>1, <3>1 DEF NoHole
  <2>2. CASE i > pos
    <3>1. i - pos \in DOMAIN cells /\ pos + (i - pos) = i
      BY <1>2, <2>2
    <3> QED BY <1>1, <1>2, <3>1
  <2> QED BY <1>2, <2>1, <2>2
<1>4. SyncedKept'
  <2> SUFFICES ASSUME NEW r \in Synced \ retired
               PROVE  \E i \in DOMAIN durable : durable[i] = r /\ Clear(i)'
    BY DEF SyncedKept
  <2>1. PICK i \in DOMAIN durable : durable[i] = r /\ Clear(i)
    BY DEF SyncedKept
  <2>2. i \in Nat /\ i \in 1..i
    BY LenProperties DEF Types
  <2>3. i \in DOMAIN file /\ file[i] = r /\ i <= pos
    BY <2>1, <2>2, SyncedDone DEF Clear, Behind
  <2>4. ASSUME NEW k \in 1..i PROVE durable[k] # Bad /\ k \in DOMAIN f /\ f[k] = durable[k]
    <3>1. k <= pos
      BY <1>2, <2>2, <2>3
    <3> QED BY <1>1, <2>1, <3>1 DEF Clear
  <2> QED BY <2>1, <2>4 DEF Clear
<1>5. ASSUME NEW r \in ToSet(cells) PROVE \E i \in 1..pos + Len(cells) : i \in DOMAIN f /\ f[i] = r
  <2>1. PICK k \in DOMAIN cells : cells[k] = r
    BY DEF ToSet
  <2>2. pos + k \in 1..pos + Len(cells)
    BY <1>2, <2>1
  <2> QED BY <1>1, <2>1, <2>2
<1> QED BY <1>3, <1>4, <1>5

\* Each step keeps what is synced readable.
LEMMA SolidNext ==
  ASSUME Inv, Solid, [Next]_vars, ~SeekFails, mode # "relaxed"
  PROVE  Solid'
<1> USE Threads
<1>0. /\ Types /\ Control /\ Fresh /\ Ordered /\ Places
      /\ (mounted => Behind)
      /\ \A t \in Procs : pc[t] \in {"sync", "reseek"} => lock = t
      /\ (pc[Owner] # "reseek" => NoHole) /\ SyncedKept /\ Arrived
      /\ \A t \in Procs : \A place : GoTo(t, place) =>
           /\ pc'[t] = place /\ \A u \in Procs : u # t => pc'[u] = pc[u]
  <2>1. Types /\ Control /\ Fresh /\ Ordered /\ Places
    BY DEF Inv, Unique, Control
  <2>2. (mounted => Behind) /\ \A t \in Procs : pc[t] \in {"sync", "reseek"} => lock = t
    BY <2>1 DEF Ordered, Control, Locking
  <2>3. (pc[Owner] # "reseek" => NoHole) /\ SyncedKept /\ Arrived
    BY DEF Solid
  <2>4. \A t \in Procs : \A place : GoTo(t, place) =>
          /\ pc'[t] = place /\ \A u \in Procs : u # t => pc'[u] = pc[u]
    BY <2>1, Gone DEF Places
  <2> QED BY <2>1, <2>2, <2>3, <2>4
\* A thread moves and leaves the disk.
<1>a. ASSUME NEW t \in Procs, NEW place, GoTo(t, place), place \notin {"sync", "signal", "reseek"},
             pc[t] \notin {"signal", "reseek"}, UNCHANGED <<mode, file, pos, durable>>,
             \A u \in Procs : u # t => batch'[u] = batch[u],
             acked' \subseteq acked \cup signalled, signalled' = signalled, retired \subseteq retired'
      PROVE  Solid'
  <2>1. pc'[t] = place /\ \A u \in Procs : u # t => pc'[u] = pc[u]
    BY <1>0, <1>a
  <2>2. Sure(t)' = {} /\ \A u \in Procs : u # t => Sure(u)' = Sure(u)
    BY <1>a, <2>1 DEF Sure
  <2>3. Synced' \subseteq Synced
    <3>1. \A u \in Procs : Sure(u)' \subseteq Sure(u)
      BY <2>2
    <3> QED BY <1>a, <3>1 DEF Synced
  <2>4. pc'[Owner] = "reseek" <=> pc[Owner] = "reseek"
    BY <1>a, <2>1
  <2>5. \A u \in Procs : pc'[u] = "sync" => pc[u] = "sync" /\ batch'[u] = batch[u]
    BY <1>a, <2>1
  <2> QED BY <1>a, <2>3, <2>4, <2>5, SolidStays
<1>1. ASSUME NEW w \in Writers, Submit(w) PROVE Solid'
  <2>1. /\ pc[w] = "idle" /\ GoTo(w, IF mode = "immediate" THEN "write" ELSE "enqueue")
        /\ UNCHANGED <<mode, file, pos, durable, acked, signalled, retired>>
        /\ \A u \in Procs : u # w => batch'[u] = batch[u]
    BY <1>0, <1>1 DEF Submit, disk, session, Types, AllModes
  <2> QED BY <2>1, <1>a
<1>2. ASSUME NEW w \in Writers, Enqueue(w) PROVE Solid'
  <2>1. /\ pc[w] = "enqueue" /\ GoTo(w, IF Len(pending') >= MaxPendingOps THEN "drain" ELSE "wait")
        /\ UNCHANGED <<mode, file, pos, durable, batch, acked, signalled, retired>>
    BY <1>2 DEF Enqueue, disk, session, history
  <2> QED BY <2>1, <1>a
<1>3. ASSUME NEW w \in Writers, Wake(w) PROVE Solid'
  <2>1. /\ pc[w] = "wait" /\ GoTo(w, "idle") /\ acked' = acked \cup {rec[w]} /\ rec[w] \in signalled
        /\ UNCHANGED <<mode, file, pos, durable, batch, signalled, retired>>
    BY <1>3 DEF Wake, Answer, disk, session
  <2> QED BY <2>1, <1>a
<1>4. ASSUME NEW w \in Writers, AppendRelaxed(w) PROVE FALSE
  BY <1>0, <1>4 DEF AppendRelaxed, Places, WriterOK, Types, AllModes, Control, Queueing
<1>5. ASSUME Tick PROVE Solid'
  <2>1. /\ pc[Flusher] = "idle" /\ GoTo(Flusher, "drain")
        /\ UNCHANGED <<mode, file, pos, durable, batch, acked, signalled, retired>>
    BY <1>5 DEF Tick, disk, session, history
  <2> QED BY <2>1, <1>a
<1>6. ASSUME NEW t \in Procs, Drain(t) PROVE Solid'
  <2>1. /\ pc[t] = "drain" /\ GoTo(t, IF pending = <<>> THEN FlushDone(t) ELSE "write")
        /\ UNCHANGED <<mode, file, pos, durable, acked, signalled, retired>>
        /\ \A u \in Procs : u # t => batch'[u] = batch[u]
    BY <1>0, <1>6 DEF Drain, disk, session, history, Types
  <2>2. FlushDone(t) \in {"truncate", "join", "idle", "wait"}
    BY <1>0 DEF FlushDone, Types
  <2> QED BY <2>1, <2>2, <1>a
\* Nobody is past the write while another thread has the lock.
<1>7. ASSUME NEW t \in Procs, pc[t] = "write", lock = NoOne
      PROVE  /\ mounted /\ Behind /\ NoHole
             /\ \A u \in Procs : pc[u] \notin {"sync", "reseek"}
             /\ buffer \o batch[t] \in Seq(Op)
             /\ ToSet(buffer \o batch[t]) = ToSet(buffer) \cup ToSet(batch[t])
  <2>1. mounted
    BY <1>0, <1>7, Flushing DEF Calling
  <2>2. \A u \in Procs : pc[u] \notin {"sync", "reseek"}
    BY <1>0, <1>7
  <2>3. /\ buffer \o batch[t] \in Seq(Op)
        /\ ToSet(buffer \o batch[t]) = ToSet(buffer) \cup ToSet(batch[t])
    BY <1>0, Concatenated DEF Types
  <2> QED BY <1>0, <2>1, <2>2, <2>3
<1>8. ASSUME NEW t \in Procs, WriteOut(t) PROVE Solid'
  <2> DEFINE all == buffer \o batch[t]
  <2>1. /\ pc[t] = "write" /\ lock = NoOne /\ GoTo(t, "sync") /\ file' = Put(all) /\ pos' = pos + Len(all)
        /\ UNCHANGED <<mode, durable, batch, acked, signalled, retired>>
    BY <1>8 DEF WriteOut, history, session
  <2>2. pc'[t] = "sync" /\ \A u \in Procs : u # t => pc'[u] = pc[u]
    BY <1>0, <2>1
  <2>3. /\ mounted /\ Behind /\ NoHole /\ \A u \in Procs : pc[u] \notin {"sync", "reseek"}
        /\ all \in Seq(Op) /\ ToSet(batch[t]) \subseteq ToSet(all)
    BY <2>1, <1>7
  <2> HIDE DEF all
  <2>4. Synced' \subseteq Synced
    <3>1. \A u \in Procs : Sure(u)' \subseteq Sure(u)
      BY <2>1, <2>2 DEF Sure
    <3> QED BY <2>1, <3>1 DEF Synced
  <2>5. /\ \A i \in 1..pos + Len(all) : i \in DOMAIN file' /\ file'[i] # Bad
        /\ SyncedKept'
        /\ \A r \in ToSet(all) : \E i \in 1..pos + Len(all) : i \in DOMAIN file' /\ file'[i] = r
    BY <1>0, <2>1, <2>3, <2>4, PutSolid
  <2>6. NoHole'
    BY <2>1, <2>5 DEF NoHole
  <2>7. Arrived'
    BY <2>1, <2>2, <2>3, <2>5 DEF Arrived
  <2>8. pc'[Owner] # "reseek"
    BY <2>2, <2>3
  <2> QED BY <2>5, <2>6, <2>7, <2>8 DEF Solid
<1>9. ASSUME NEW t \in Procs, Sync(t) PROVE Solid'
  <2>1. /\ pc[t] = "sync" /\ GoTo(t, "signal") /\ durable' = file
        /\ UNCHANGED <<mode, file, pos, batch, acked, signalled, retired>>
    BY <1>9 DEF Sync, history, session
  <2>2. pc'[t] = "signal" /\ \A u \in Procs : u # t => pc'[u] = pc[u]
    BY <1>0, <2>1
  <2>3. lock = t /\ pc[Owner] # "reseek" /\ pc'[Owner] # "reseek"
    BY <1>0, <2>1, <2>2
  <2>4. NoHole'
    BY <1>0, <2>1, <2>3 DEF NoHole
  <2>5. Arrived'
    BY <1>0, <2>1, <2>2 DEF Arrived
  <2>6. ASSUME NEW r \in Synced' \ retired' PROVE \E i \in DOMAIN durable' : durable'[i] = r /\ Clear(i)'
    <3>1. CASE r \in Synced
      <4>1. PICK i \in DOMAIN durable : durable[i] = r /\ Clear(i)
        BY <1>0, <2>1, <2>6, <3>1 DEF SyncedKept
      <4>2. i \in 1..i
        BY <1>0, LenProperties DEF Types
      <4>3. i \in DOMAIN file /\ file[i] = r
        BY <4>1, <4>2 DEF Clear
      <4>4. Clear(i)'
        BY <2>1, <4>1 DEF Clear
      <4> QED BY <2>1, <4>3, <4>4
    <3>2. CASE r \in ToSet(batch[t])
      <4>1. PICK i \in 1..pos : i \in DOMAIN file /\ file[i] = r
        BY <1>0, <2>1, <3>2 DEF Arrived
      <4>2. 1..i \subseteq 1..pos
        BY <1>0 DEF Types
      <4>3. Clear(i)'
        BY <1>0, <2>1, <2>3, <4>2 DEF Clear, NoHole
      <4> QED BY <2>1, <4>1, <4>3
    <3>3. \A u \in Procs : u # t => Sure(u)' = Sure(u)
      BY <2>1, <2>2 DEF Sure
    <3>4. Sure(t)' = ToSet(batch[t])
      BY <2>1, <2>2 DEF Sure
    <3>5. r \in Synced \/ r \in ToSet(batch[t])
      BY <2>1, <2>6, <3>3, <3>4 DEF Synced
    <3> QED BY <3>1, <3>2, <3>5
  <2>7. SyncedKept'
    BY <2>6 DEF SyncedKept
  <2> QED BY <2>3, <2>4, <2>5, <2>7 DEF Solid
<1>10. ASSUME NEW t \in Procs, Fail(t) PROVE Solid'
  <2> DEFINE all == buffer \o batch[t]
  <2>1. /\ GoTo(t, FlushFailed(t)) /\ batch' = [batch EXCEPT ![t] = <<>>]
        /\ UNCHANGED <<mode, durable, acked, signalled, retired>>
    BY <1>10 DEF Fail, session
  <2>2. /\ FlushFailed(t) \in {"idle", "closed"} /\ \A u \in Procs : u # t => batch'[u] = batch[u]
    BY <1>0, <2>1 DEF FlushFailed, Types
  <2>3. CASE pc[t] = "sync" /\ UNCHANGED <<file, pos>>
    BY <2>1, <2>2, <2>3, <1>a
  <2>4. ASSUME pc[t] = "write", lock = NoOne, NEW k \in 0..Len(all), file' = Put(SubSeq(all, 1, k)), pos' = pos + k
        PROVE  Solid'
    <3> DEFINE cells == SubSeq(all, 1, k)
    <3>1. /\ mounted /\ Behind /\ NoHole /\ \A u \in Procs : pc[u] \notin {"sync", "reseek"} /\ all \in Seq(Op)
      BY <2>4, <1>7
    <3>2. pc'[t] \in {"idle", "closed"} /\ \A u \in Procs : u # t => pc'[u] = pc[u]
      BY <1>0, <2>1, <2>2
    <3>3. Parts(all, k, cells, SubSeq(all, k + 1, Len(all))) /\ file' = Put(cells)
      BY <2>4 DEF Parts
    <3> HIDE DEF all, cells
    <3>4. cells \in Seq(Op) /\ Len(cells) = k
      BY <2>4, <3>1, <3>3, Split
    <3>5. Synced' \subseteq Synced
      <4>1. \A u \in Procs : Sure(u)' \subseteq Sure(u)
        BY <2>2, <3>2 DEF Sure
      <4> QED BY <2>1, <4>1 DEF Synced
    <3>6. /\ \A i \in 1..pos + k : i \in DOMAIN file' /\ file'[i] # Bad
          /\ SyncedKept'
      BY <1>0, <2>1, <3>1, <3>3, <3>4, <3>5, PutSolid
    <3>7. NoHole' /\ Arrived' /\ pc'[Owner] # "reseek"
      BY <2>4, <3>1, <3>2, <3>6 DEF NoHole, Arrived
    <3> QED BY <3>6, <3>7 DEF Solid
  <2>5. \/ pc[t] = "sync" /\ UNCHANGED <<file, pos>>
        \/ /\ pc[t] = "write" /\ lock = NoOne
           /\ \E k \in 0..Len(all) : file' = Put(SubSeq(all, 1, k)) /\ pos' = pos + k
    BY <1>10 DEF Fail
  <2> QED BY <2>3, <2>4, <2>5
<1>11. ASSUME NEW t \in Procs, Signal(t) PROVE Solid'
  <2>1. /\ pc[t] = "signal" /\ batch' = [batch EXCEPT ![t] = <<>>]
        /\ UNCHANGED <<mode, file, pos, durable, retired>>
    BY <1>11 DEF Signal, disk, session
  <2>2. mode = "immediate" => t \in Writers /\ rec[t] \in ToSet(batch[t])
    <3>1. mode = "immediate" => t \in Writers
      BY <1>0, <2>1 DEF Control, Queueing
    <3>2. mode = "immediate" => batch[t] = <<rec[t]>>
      BY <1>0, <2>1, <3>1 DEF Places, WriterOK
    <3>3. rec[t] \in ToSet(<<rec[t]>>)
      BY DEF ToSet
    <3> QED BY <3>1, <3>2, <3>3
  <2>3. /\ acked' \subseteq acked \cup ToSet(batch[t]) /\ signalled' \subseteq signalled \cup ToSet(batch[t])
    BY <1>11, <2>2 DEF Signal, Answer
  <2>4. /\ pc'[t] \in {"truncate", "join", "idle", "wait"} /\ \A u \in Procs : u # t => pc'[u] = pc[u]
    <3>1. FlushDone(t) \in {"truncate", "join", "idle", "wait"}
      BY <1>0 DEF FlushDone, Types
    <3>2. GoTo(t, "idle") \/ GoTo(t, FlushDone(t))
      BY <1>11 DEF Signal, Answer
    <3> QED BY <1>0, <3>1, <3>2
  <2>5. Sure(t) = ToSet(batch[t]) /\ Sure(t)' = {} /\ \A u \in Procs : u # t => Sure(u)' = Sure(u)
    BY <1>0, <2>1, <2>4 DEF Sure, Types
  <2>6. Synced' \subseteq Synced
    <3>1. \A u \in Procs : Sure(u)' \subseteq Sure(u)
      BY <2>5
    <3>2. ToSet(batch[t]) \subseteq Synced
      BY <2>5 DEF Synced
    <3> QED BY <2>3, <3>1, <3>2 DEF Synced
  <2>7. pc'[Owner] = "reseek" <=> pc[Owner] = "reseek"
    BY <2>1, <2>4
  <2>8. \A u \in Procs : pc'[u] = "sync" => pc[u] = "sync" /\ batch'[u] = batch[u]
    BY <1>0, <2>1, <2>4 DEF Types
  <2> QED BY <2>1, <2>6, <2>7, <2>8, SolidStays
<1>12. ASSUME Open PROVE Solid'
  <2>1. /\ pc[Owner] = "closed" /\ GoTo(Owner, "recover") /\ file' = Put(buffer) /\ pos' = 0
        /\ \A t \in Procs \ {Owner} : pc[t] = "idle"
        /\ UNCHANGED <<mode, durable, batch, acked, signalled, retired>>
    BY <1>12 DEF Open, history
  <2>2. pc'[Owner] = "recover" /\ \A u \in Procs : u # Owner => pc'[u] = "idle"
    BY <1>0, <2>1
  <2>3. Synced' \subseteq Synced
    <3>1. \A u \in Procs : Sure(u)' \subseteq Sure(u)
      BY <2>2 DEF Sure
    <3> QED BY <2>1, <3>1 DEF Synced
  <2>4. SyncedKept'
    <3>1. CASE mounted
      BY <1>0, <2>1, <2>3, <3>1, PutSolid DEF Types
    <3>2. CASE ~mounted
      <4>1. file' = file
        BY <1>0, <2>1, <3>2 DEF Control, Recovering, Put
      <4> QED BY <1>0, <2>1, <2>3, <4>1 DEF SyncedKept, Clear
    <3> QED BY <1>0, <3>1, <3>2 DEF Types
  <2>5. NoHole'
    BY <2>1 DEF NoHole
  <2>6. Arrived'
    BY <2>2 DEF Arrived
  <2> QED BY <2>2, <2>4, <2>5, <2>6 DEF Solid
<1>13. ASSUME Replay PROVE Solid'
  <2>1. /\ GoTo(Owner, "failed") \/ GoTo(Owner, "drain")
        /\ retired \subseteq retired'
        /\ UNCHANGED <<mode, file, pos, durable, batch, acked, signalled>>
    BY <1>13 DEF Replay, disk, session
  <2>2. pc[Owner] = "recover"
    BY <1>13 DEF Replay
  <2> QED BY <2>1, <2>2, <1>a
<1>14. ASSUME Checkpoint \/ Close \/ Join PROVE Solid'
  <2>1. /\ GoTo(Owner, "drain") \/ GoTo(Owner, "closed")
        /\ UNCHANGED <<mode, file, pos, durable, batch, acked, signalled, retired>>
    BY <1>14 DEF Checkpoint, Close, Join, disk, session, history
  <2>2. pc[Owner] \in {"idle", "join"}
    BY <1>14 DEF Checkpoint, Close, Join
  <2> QED BY <2>1, <2>2, <1>a
<1>15. ASSUME Truncate PROVE Solid'
  <2>1. /\ pc[Owner] = "truncate" /\ lock = NoOne /\ GoTo(Owner, "reseek") /\ file' = <<>>
        /\ retired' = retired \cup (ToSet(file) \ {Bad})
        /\ UNCHANGED <<mode, pos, durable, batch, acked, signalled>>
    BY <1>15 DEF Truncate, session
  <2>2. pc'[Owner] = "reseek" /\ \A u \in Procs : u # Owner => pc'[u] = pc[u] /\ pc[u] # "sync"
    BY <1>0, <2>1
  <2>3. Synced' \subseteq Synced
    <3>1. \A u \in Procs : Sure(u)' \subseteq Sure(u)
      BY <2>1, <2>2 DEF Sure
    <3> QED BY <2>1, <3>1 DEF Synced
  <2>4. Synced' \subseteq retired'
    <3> SUFFICES ASSUME NEW r \in Synced \ retired PROVE r \in ToSet(file) /\ r # Bad
      BY <2>1, <2>3
    <3>1. PICK i \in DOMAIN durable : durable[i] = r /\ Clear(i)
      BY <1>0 DEF SyncedKept
    <3>2. i \in 1..i
      BY <1>0, LenProperties DEF Types
    <3> QED BY <3>1, <3>2 DEF Clear, ToSet
  <2>5. SyncedKept' /\ Arrived'
    BY <2>2, <2>4 DEF SyncedKept, Arrived
  <2> QED BY <2>2, <2>4, <2>5 DEF Solid
\* The file has been truncated: all that is synced is retired.
<1>16. ASSUME pc[Owner] = "reseek", pos' = 0, NEW place, place \in {"idle", "failed"}, GoTo(Owner, place),
              UNCHANGED <<batch, acked, signalled, retired>>
       PROVE  Solid'
  <2>1. lock = Owner /\ pc'[Owner] = place /\ \A u \in Procs : u # Owner => pc'[u] = pc[u] /\ pc[u] # "sync"
    BY <1>0, <1>16
  <2>2. Synced' \subseteq retired'
    <3>1. \A u \in Procs : Sure(u)' \subseteq Sure(u)
      BY <1>16, <2>1 DEF Sure
    <3>2. Synced' \subseteq Synced
      BY <1>16, <3>1 DEF Synced
    <3> QED BY <1>16, <3>2 DEF Solid
  <2>3. NoHole' /\ SyncedKept' /\ Arrived'
    BY <1>16, <2>1, <2>2 DEF NoHole, SyncedKept, Arrived
  <2> QED BY <1>16, <2>1, <2>3 DEF Solid
<1>17. ASSUME Reseek PROVE Solid'
  BY <1>16, <1>17 DEF Reseek, history
<1>18. ASSUME CheckpointFails PROVE Solid'
  <2>1. /\ GoTo(Owner, IF mounted THEN "idle" ELSE "failed")
        /\ UNCHANGED <<mode, durable, batch, acked, signalled, retired>>
    BY <1>18 DEF CheckpointFails, session
  <2>2. \/ pc[Owner] = "truncate" /\ UNCHANGED <<file, pos>>
        \/ pc[Owner] = "reseek" /\ pos' = 0
    BY <1>18 DEF CheckpointFails, SeekFails
  <2> QED BY <1>a, <1>16, <2>1, <2>2
<1>19. ASSUME PowerFailure PROVE Solid'
  <2>1. PICK f \in Outcomes : file' = f /\ durable' = f
    BY <1>19 DEF PowerFailure
  <2>2. /\ pos' = 0 /\ signalled' = {} /\ UNCHANGED <<mode, acked, retired>>
        /\ \A t \in Procs : pc'[t] \in {"closed", "idle"}
    BY <1>19 DEF PowerFailure
  <2>3. Synced' = acked
    <3>1. \A u \in Procs : Sure(u)' = {}
      BY <2>2 DEF Sure
    <3> QED BY <2>2, <3>1 DEF Synced
  <2>4. SyncedKept'
    <3> SUFFICES ASSUME NEW r \in acked \ retired PROVE \E i \in DOMAIN f : f[i] = r /\ Clear(i)'
      BY <2>1, <2>2, <2>3 DEF SyncedKept
    <3>1. PICK i \in DOMAIN durable : durable[i] = r /\ Clear(i)
      BY <1>0 DEF SyncedKept, Synced
    <3>2. DOMAIN durable = 1..Len(durable) /\ Len(durable) \in Nat /\ i \in 1..i /\ 1..i \subseteq 1..Len(durable)
      <4>1. DOMAIN durable = 1..Len(durable) /\ Len(durable) \in Nat
        BY <1>0, LenProperties DEF Types
      <4> QED BY <4>1
    <3>3. \A k \in 1..i : k \in DOMAIN f /\ f[k] = durable[k] /\ f[k] # Bad
      <4>1. \A k \in 1..i : k \in DOMAIN file \cap DOMAIN durable /\ file[k] = durable[k] /\ durable[k] # Bad
        BY <3>1, <3>2 DEF Clear
      <4> QED BY <1>0, <4>1, OutcomesAre
    <3> QED BY <2>1, <3>1, <3>2, <3>3 DEF Clear
  <2>5. NoHole' /\ Arrived' /\ pc'[Owner] # "reseek"
    BY <2>2 DEF NoHole, Arrived
  <2> QED BY <2>4, <2>5 DEF Solid
<1>20. CASE UNCHANGED vars
  <2>1. UNCHANGED <<mode, file, pos, durable, pc, batch, acked, signalled, retired>>
    BY <1>20 DEF vars, disk, session, threads, history
  <2>2. Synced' \subseteq Synced
    <3>1. \A u \in Procs : Sure(u)' = Sure(u)
      BY <2>1 DEF Sure
    <3> QED BY <2>1, <3>1 DEF Synced
  <2> QED BY <2>1, <2>2, SolidStays
<1> QED
  BY <1>1, <1>2, <1>3, <1>4, <1>5, <1>6, <1>8, <1>9, <1>10, <1>11, <1>12, <1>13, <1>14, <1>15, <1>17,
     <1>18, <1>19, <1>20 DEF Next, Runs, Flush

\* The initial states are solid.
LEMMA SolidInit == ASSUME Init PROVE Solid
<1> USE DEF Init
<1>1. \A t \in Procs : Sure(t) = {} /\ pc[t] \in {"closed", "idle"}
  BY DEF Sure
<1>2. Synced = {}
  BY <1>1 DEF Synced
<1> QED BY <1>1, <1>2, Threads DEF Solid, NoHole, SyncedKept, Arrived

\* In a solid state what is acknowledged is readable.
LEMMA SolidAnswers == ASSUME Inv, Solid PROVE AckedReadable
<1> SUFFICES ASSUME mode # "relaxed", NEW r \in acked \ retired PROVE r \in Readable(durable)
  BY DEF AckedReadable
<1>1. PICK i \in DOMAIN durable : durable[i] = r /\ Clear(i)
  BY DEF Solid, SyncedKept, Synced
<1> QED BY <1>1 DEF Clear, Readable

\* Outside Relaxed mode an acknowledged record is on the disk, ahead of
\* anything that does not parse, until it has been replayed or truncated,
\* whatever is interrupted, fails or is written out by another thread, unless
\* the flush in the seek of a checkpoint fails: the handle then stays past the
\* end of the truncated file, and the next record is written behind a hole.
THEOREM AckedStayReadable == Spec /\ [][~SeekFails]_vars => []AckedReadable
<1>1. Init => Inv /\ Solid
  BY InvInit, SolidInit
<1>2. Inv /\ Solid /\ [Next]_vars /\ [~SeekFails]_vars => Inv' /\ Solid'
  <2> SUFFICES ASSUME Inv, Solid, [Next]_vars, [~SeekFails]_vars PROVE Inv' /\ Solid'
    OBVIOUS
  <2>1. Inv'
    BY InvNext
  <2>2. ~SeekFails
    BY Threads DEF SeekFails, CheckpointFails, GoTo, vars, threads, Inv, Control, Places
  <2>3. CASE mode = "relaxed"
    <3>1. mode' = mode
      BY ModeStays
    <3> QED BY <2>1, <2>3, <3>1 DEF Solid
  <2>4. CASE mode # "relaxed"
    BY <2>1, <2>2, <2>4, SolidNext
  <2> QED BY <2>3, <2>4
<1>3. Inv /\ Solid => AckedReadable
  BY SolidAnswers
<1> QED BY <1>1, <1>2, <1>3, PTL DEF Spec

\* Outside Relaxed mode the buffer holds records only after an error.
Errors ==
  /\ budget \in [checkpoints : Nat, errors : Nat, crashes : Nat] /\ budget.errors <= MaxErrors
  /\ mode # "relaxed" /\ buffer # <<>> => budget.errors < MaxErrors

\* Each step keeps that.
LEMMA ErrorsNext == ASSUME Inv, Errors, [Next]_vars PROVE Errors'
<1> USE DEF Errors
<1>0. budget.errors \in Nat /\ budget.checkpoints \in Nat /\ budget.crashes \in Nat /\ MaxErrors \in Nat
  BY LimitAssumption
<1>1. CASE UNCHANGED <<mode, buffer, budget>>
  BY <1>1
<1>2. CASE /\ budget.checkpoints > 0 /\ budget' = [budget EXCEPT !.checkpoints = @ - 1]
           /\ UNCHANGED <<mode, buffer>>
  BY <1>0, <1>2
<1>3. CASE budget.errors > 0 /\ budget' = [budget EXCEPT !.errors = @ - 1]
  BY <1>0, <1>3
<1>4. CASE budget.crashes > 0 /\ budget' = [budget EXCEPT !.crashes = @ - 1] /\ buffer' = <<>>
  BY <1>0, <1>4
<1>5. CASE UNCHANGED <<mode, budget>> /\ buffer' = <<>>
  BY <1>5
<1>6. ASSUME NEW w \in Writers, AppendRelaxed(w) PROVE UNCHANGED <<mode, budget>> /\ mode = "relaxed"
  BY <1>6, Threads DEF AppendRelaxed, Inv, Control, Places, WriterOK, Types, AllModes, session
<1>7. CASE \E w \in Writers : AppendRelaxed(w)
  BY <1>6, <1>7
<1>8. \/ UNCHANGED <<mode, buffer, budget>>
      \/ /\ budget.checkpoints > 0 /\ budget' = [budget EXCEPT !.checkpoints = @ - 1]
         /\ UNCHANGED <<mode, buffer>>
      \/ budget.errors > 0 /\ budget' = [budget EXCEPT !.errors = @ - 1]
      \/ budget.crashes > 0 /\ budget' = [budget EXCEPT !.crashes = @ - 1] /\ buffer' = <<>>
      \/ UNCHANGED <<mode, budget>> /\ buffer' = <<>>
      \/ \E w \in Writers : AppendRelaxed(w)
  BY DEF Next, Runs, Flush, Drain, WriteOut, Sync, Signal, Enqueue, Wake, Tick, Open, Replay, Truncate,
         Reseek, Join, Fail, Submit, Checkpoint, CheckpointFails, Close, PowerFailure, vars, disk, history
<1> QED BY <1>1, <1>2, <1>3, <1>4, <1>5, <1>7, <1>8

\* With at most one I/O error it cannot: the flush in the seek has nothing to
\* write unless a flush has failed before.
THEOREM AckedReadableOneError == ASSUME MaxErrors <= 1 PROVE Spec => []AckedReadable
<1>1. Init => Errors
  BY LimitAssumption DEF Init, Errors
<1>2. Inv /\ Errors /\ [Next]_vars => Errors'
  BY ErrorsNext
<1>3. Inv /\ Errors /\ [Next]_vars => [~SeekFails]_vars
  <2> SUFFICES ASSUME Inv, Errors, SeekFails PROVE FALSE
    OBVIOUS
  <2>1. mode # "relaxed" /\ budget.errors > 0 /\ buffer # <<>>
    BY DEF SeekFails, CheckpointFails
  <2> QED BY <2>1, LimitAssumption DEF Errors
<1> QED BY <1>1, <1>2, <1>3, Always, AckedStayReadable, PTL DEF Spec
=============================================================================
