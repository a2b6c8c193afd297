------------------------------ MODULE Journal -------------------------------
(***************************************************************************)
(* The write-ahead log of versioned/journal.rs.  Writers append            *)
(* transactions; in group-commit mode a record goes through a queue that   *)
(* any thread may drain (a writer that fills it, the background flusher,   *)
(* the owner in checkpoint and close), is written out under the writer     *)
(* lock, and its writer waits for the signal.  The owner opens the         *)
(* journal, replays it, checkpoints it and closes it; the power may fail   *)
(* at any time and an I/O call may report an error.                        *)
(*                                                                         *)
(* Abstraction: a record is the number of its write_transaction call, one  *)
(* cell of the file whatever its length; Bad is a cell replay cannot       *)
(* parse.  A batch fits the buffer of the BufWriter.                       *)
(***************************************************************************)
EXTENDS Naturals, Sequences, FiniteSets, SequencesExt

CONSTANTS
  Writers,        \* threads that call write_transaction
  Flusher,        \* the background thread of group commit
  Owner,          \* the thread that opens, checkpoints and closes
  NoOne,
  Modes,          \* DurabilityMode: a subset of AllModes
  MaxPendingOps,  \* max_pending_ops
  MaxOps,         \* write_transaction calls in a behaviour
  MaxCheckpoints, \* checkpoints beside those of a recovery
  MaxErrors,      \* I/O errors
  MaxCrashes      \* power failures

AllModes == {"immediate", "group", "relaxed"}
Bad == 0
Op == 1..MaxOps
Procs == Writers \cup {Flusher, Owner}

ASSUME ModesAssumption == Modes \subseteq AllModes
ASSUME LimitAssumption ==
  MaxPendingOps \in Nat \ {0} /\ {MaxOps, MaxCheckpoints, MaxErrors, MaxCrashes} \subseteq Nat
ASSUME ThreadsAssumption ==
  Flusher \notin Writers /\ Owner \notin Writers \cup {Flusher} /\ NoOne \notin Procs

VARIABLES
  mode,
  open,      \* open, the opposite of stop_signal
  mounted,   \* recovery is over: the owner has handed the journal out
  pending,   \* pending: records queued for group commit
  buffer,    \* what the BufWriter holds
  pos,       \* the cell the file handle is at
  file,      \* what the operating system holds of the file
  durable,   \* what was on the disk at the last sync_all
  lock,      \* who holds the writer lock
  pc,        \* where each thread is
  rec,       \* the record of the call each writer is in
  batch,     \* the records each thread has drained
  after,     \* what the owner does when its flush is over
  signalled, \* records whose committed flag is set
  ops,       \* history: write_transaction calls so far
  acked,     \* history: those answered Ok
  before,    \* history: for each call, those answered Ok when it began
  retired,   \* history: records a checkpoint has truncated
  replayed,  \* history: what the last replay returned, or Bad
  budget     \* checkpoints, I/O errors and power failures still to come

disk == <<buffer, pos, file, durable>>
session == <<open, mounted>>
history == <<ops, acked, before, retired, replayed, budget>>
threads == <<lock, pc, rec, batch, after, signalled>>
vars == <<mode, session, pending, disk, threads, history>>

Init ==
  /\ mode \in Modes
  /\ open = FALSE /\ mounted = FALSE
  /\ pending = <<>> /\ buffer = <<>> /\ file = <<>> /\ durable = <<>>
  /\ pos = 0
  /\ lock = NoOne
  /\ pc = [t \in Procs |-> IF t = Owner THEN "closed" ELSE "idle"]
  /\ rec = [w \in Writers |-> Bad]
  /\ batch = [t \in Procs |-> <<>>]
  /\ after = "join"
  /\ signalled = {}
  /\ ops = 0 /\ acked = {} /\ before = <<>> /\ retired = {} /\ replayed = <<>>
  /\ budget = [checkpoints |-> MaxCheckpoints, errors |-> MaxErrors, crashes |-> MaxCrashes]

GoTo(t, place) == pc' = [pc EXCEPT ![t] = place]

\* The records cells are written at the handle, over what is there; a handle
\* past the end of the file leaves a hole.
Put(cells) ==
  IF cells = <<>> THEN file ELSE
  [i \in 1..(IF pos + Len(cells) > Len(file) THEN pos + Len(cells) ELSE Len(file)) |->
     IF i \in pos + 1..pos + Len(cells) THEN cells[i - pos]
     ELSE IF i <= Len(file) THEN file[i] ELSE Bad]
-----------------------------------------------------------------------------
(* write_transaction *)

\* A closed journal refuses; the call takes the next transaction id.
Submit(w) ==
  /\ pc[w] = "idle" /\ ops < MaxOps
  /\ open /\ mounted
  /\ ops' = ops + 1
  /\ before' = Append(before, acked)
  /\ rec' = [rec EXCEPT ![w] = ops + 1]
  /\ batch' = [batch EXCEPT ![w] = IF mode = "immediate" THEN <<ops + 1>> ELSE <<>>]
  /\ GoTo(w, CASE mode = "immediate" -> "write"
               [] mode = "group" -> "enqueue"
               [] mode = "relaxed" -> "append")
  /\ UNCHANGED <<mode, session, pending, disk, lock, after, signalled, acked, retired, replayed,
                 budget>>

Answer(w) ==
  /\ acked' = acked \cup {rec[w]}
  /\ GoTo(w, "idle")

\* Mutant of Enqueue: the writer does not wait for the commit.
EnqueueNoWait(w) ==
  /\ pc[w] = "enqueue"
  /\ pending' = Append(pending, rec[w])
  /\ acked' = acked \cup {rec[w]}
  /\ GoTo(w, "idle")
  /\ UNCHANGED <<mode, session, disk, lock, rec, batch, after, signalled, ops, before, retired,
                 replayed, budget>>

\* Group commit: queue the record; the writer that fills the queue flushes it.
Enqueue(w) ==
  /\ pc[w] = "enqueue"
  /\ pending' = Append(pending, rec[w])
  /\ GoTo(w, IF Len(pending') >= MaxPendingOps THEN "drain" ELSE "wait")
  /\ UNCHANGED <<mode, session, disk, lock, rec, batch, after, signalled, history>>

\* The committed flag of the record, set by whoever wrote it out.
Wake(w) ==
  /\ pc[w] = "wait" /\ rec[w] \in signalled
  /\ Answer(w)
  /\ UNCHANGED <<mode, session, pending, disk, lock, rec, batch, after, signalled, ops, before,
                 retired, replayed, budget>>

\* Relaxed: into the buffer, which may first have had to make room.
AppendRelaxed(w) ==
  /\ pc[w] = "append" /\ lock = NoOne
  /\ \/ /\ buffer' = Append(buffer, rec[w])
        /\ UNCHANGED <<file, pos>>
     \/ /\ buffer # <<>>
        /\ file' = Put(buffer) /\ pos' = pos + Len(buffer)
        /\ buffer' = <<rec[w]>>
  /\ Answer(w)
  /\ UNCHANGED <<mode, session, pending, durable, lock, rec, batch, after, signalled, ops, before,
                 retired, replayed, budget>>
-----------------------------------------------------------------------------
(* flush_pending, by any thread; an immediate write is its second half *)

\* Where thread t goes when its flush has succeeded, or found nothing to do.
FlushDone(t) ==
  CASE t = Owner -> after
    [] t = Flusher -> "idle"
    [] t \in Writers -> "wait"

\* Where it goes when the flush has failed: the error is the answer of a
\* writer, of checkpoint and of close; the flusher ignores it.
FlushFailed(t) == IF t = Owner /\ after = "join" THEN "closed" ELSE "idle"

\* The background thread wakes up; it stops when it sees the stop signal.
Tick ==
  /\ mode = "group" /\ open
  /\ pc[Flusher] = "idle"
  /\ GoTo(Flusher, "drain")
  /\ UNCHANGED <<mode, session, pending, disk, lock, rec, batch, after, signalled, history>>

\* The queue is emptied under its own lock ...
Drain(t) ==
  /\ pc[t] = "drain"
  /\ batch' = [batch EXCEPT ![t] = pending]
  /\ pending' = <<>>
  /\ GoTo(t, IF pending = <<>> THEN FlushDone(t) ELSE "write")
  /\ UNCHANGED <<mode, session, disk, lock, rec, after, signalled, history>>

\* ... and written out under the writer lock, ...
WriteOut(t) ==
  /\ pc[t] = "write" /\ lock = NoOne
  /\ lock' = t
  /\ file' = Put(buffer \o batch[t])
  /\ pos' = pos + Len(buffer \o batch[t])
  /\ buffer' = <<>>
  /\ GoTo(t, "sync")
  /\ UNCHANGED <<mode, session, pending, durable, rec, batch, after, signalled, history>>

\* Mutant of Sync: the records are flushed, not synced.
SyncSkipped(t) ==
  /\ pc[t] = "sync"
  /\ lock' = NoOne
  /\ GoTo(t, "signal")
  /\ UNCHANGED <<mode, session, pending, disk, rec, batch, after, signalled, history>>

Sync(t) ==
  /\ pc[t] = "sync"
  /\ durable' = file
  /\ lock' = NoOne
  /\ GoTo(t, "signal")
  /\ UNCHANGED <<mode, session, pending, buffer, pos, file, rec, batch, after, signalled, history>>

\* Mutant of Fail: the records that did not reach the file are written again
\* by the next flush although some of them are in the buffer.
FailRequeued(t) ==
  /\ budget.errors > 0
  /\ budget' = [budget EXCEPT !.errors = @ - 1]
  /\ \/ /\ pc[t] = "write" /\ lock = NoOne
        /\ \E k \in 0..Len(buffer \o batch[t]) :
             /\ file' = Put(SubSeq(buffer \o batch[t], 1, k))
             /\ pos' = pos + k
             /\ buffer' = SubSeq(buffer \o batch[t], k + 1, Len(buffer \o batch[t]))
     \/ /\ pc[t] = "sync"
        /\ UNCHANGED <<buffer, pos, file>>
  /\ lock' = NoOne
  /\ pending' = batch[t] \o pending
  /\ batch' = [batch EXCEPT ![t] = <<>>]
  /\ GoTo(t, FlushFailed(t))
  /\ UNCHANGED <<mode, session, durable, rec, after, signalled, ops, acked, before, retired, replayed>>

\* flush fails with some of the records written, the rest still in the buffer,
\* or sync_all fails: the batch is dropped, with nobody signalled.
Fail(t) ==
  /\ budget.errors > 0
  /\ budget' = [budget EXCEPT !.errors = @ - 1]
  /\ \/ /\ pc[t] = "write" /\ lock = NoOne
        /\ \E k \in 0..Len(buffer \o batch[t]) :
             /\ file' = Put(SubSeq(buffer \o batch[t], 1, k))
             /\ pos' = pos + k
             /\ buffer' = SubSeq(buffer \o batch[t], k + 1, Len(buffer \o batch[t]))
     \/ /\ pc[t] = "sync"
        /\ UNCHANGED <<buffer, pos, file>>
  /\ lock' = NoOne
  /\ batch' = [batch EXCEPT ![t] = <<>>]
  /\ GoTo(t, FlushFailed(t))
  /\ UNCHANGED <<mode, session, pending, durable, rec, after, signalled, ops, acked, before,
                 retired, replayed>>

\* Mutant of Signal: only the last waiter of the batch is woken.
SignalLast(t) ==
  /\ pc[t] = "signal"
  /\ IF mode = "immediate"
     THEN Answer(t) /\ UNCHANGED signalled
     ELSE /\ signalled' = signalled \cup {Last(batch[t])}
          /\ GoTo(t, FlushDone(t))
          /\ UNCHANGED acked
  /\ batch' = [batch EXCEPT ![t] = <<>>]
  /\ UNCHANGED <<mode, session, pending, disk, lock, rec, after, ops, before, retired, replayed,
                 budget>>

\* ... and its waiters are signalled.  An immediate write returns.
Signal(t) ==
  /\ pc[t] = "signal"
  /\ IF mode = "immediate"
     THEN Answer(t) /\ UNCHANGED signalled
     ELSE /\ signalled' = signalled \cup ToSet(batch[t])
          /\ GoTo(t, FlushDone(t))
          /\ UNCHANGED acked
  /\ batch' = [batch EXCEPT ![t] = <<>>]
  /\ UNCHANGED <<mode, session, pending, disk, lock, rec, after, ops, before, retired, replayed,
                 budget>>
-----------------------------------------------------------------------------
(* open, replay, checkpoint, close; failures *)

\* A journal is opened at offset 0 of the file that is there; dropping the
\* one before it has flushed its buffer.
Open ==
  /\ pc[Owner] = "closed"
  /\ \A t \in Procs \ {Owner} : pc[t] = "idle"
  /\ open' = TRUE /\ mounted' = FALSE
  /\ file' = Put(buffer)
  /\ buffer' = <<>> /\ pos' = 0
  /\ GoTo(Owner, "recover")
  /\ UNCHANGED <<mode, pending, durable, lock, rec, batch, after, signalled, history>>

\* replay: all the records, or an error if one of them does not parse.  The
\* documented recovery goes on with a checkpoint; a mount that cannot replay
\* fails.
Replay ==
  /\ pc[Owner] = "recover"
  /\ IF Bad \in ToSet(file)
     THEN /\ replayed' = <<Bad>>
          /\ GoTo(Owner, "failed")
          /\ UNCHANGED <<retired, after>>
     ELSE /\ replayed' = file
          /\ retired' = retired \cup ToSet(file)
          /\ GoTo(Owner, "drain")
          /\ after' = "truncate"
  /\ UNCHANGED <<mode, session, pending, disk, lock, rec, batch, signalled, ops, acked, before,
                 budget>>

Checkpoint ==
  /\ pc[Owner] = "idle" /\ budget.checkpoints > 0
  /\ budget' = [budget EXCEPT !.checkpoints = @ - 1]
  /\ after' = "truncate"
  /\ GoTo(Owner, "drain")
  /\ UNCHANGED <<mode, session, pending, disk, lock, rec, batch, signalled, ops, acked, before,
                 retired, replayed>>

\* After its flush, under the writer lock: set_len(0) ...
Truncate ==
  /\ pc[Owner] = "truncate" /\ lock = NoOne
  /\ lock' = Owner
  /\ file' = <<>>
  /\ retired' = retired \cup (ToSet(file) \ {Bad})
  /\ GoTo(Owner, "reseek")
  /\ UNCHANGED <<mode, session, pending, buffer, pos, durable, rec, batch, after, signalled, ops,
                 acked, before, replayed, budget>>

\* ... then the seek, which first writes what the buffer still holds at the
\* old offset, then sync_all.
Reseek ==
  /\ pc[Owner] = "reseek"
  /\ file' = Put(buffer) /\ durable' = file'
  /\ buffer' = <<>> /\ pos' = 0
  /\ lock' = NoOne
  /\ mounted' = TRUE
  /\ GoTo(Owner, "idle")
  /\ UNCHANGED <<mode, open, pending, rec, batch, after, signalled, history>>

\* An error of set_len, of the flush in the seek, or of sync_all.
CheckpointFails ==
  /\ budget.errors > 0
  /\ budget' = [budget EXCEPT !.errors = @ - 1]
  /\ \/ pc[Owner] = "truncate" /\ lock = NoOne /\ UNCHANGED <<file, buffer, pos>>
     \/ pc[Owner] = "reseek" /\ buffer # <<>> /\ UNCHANGED <<file, buffer, pos>>
     \/ pc[Owner] = "reseek" /\ file' = Put(buffer) /\ buffer' = <<>> /\ pos' = 0
  /\ lock' = NoOne
  /\ GoTo(Owner, IF mounted THEN "idle" ELSE "failed")
  /\ UNCHANGED <<mode, session, pending, durable, rec, batch, after, signalled, ops, acked,
                 before, retired, replayed>>

\* close: refuse writes, stop the flusher, flush, and join the flusher.
Close ==
  /\ pc[Owner] = "idle"
  /\ open' = FALSE
  /\ after' = "join"
  /\ GoTo(Owner, "drain")
  /\ UNCHANGED <<mode, mounted, pending, disk, lock, rec, batch, signalled, history>>

Join ==
  /\ pc[Owner] = "join" /\ pc[Flusher] = "idle"
  /\ GoTo(Owner, "closed")
  /\ UNCHANGED <<mode, session, pending, disk, lock, rec, batch, after, signalled, history>>

\* What the disk may hold after a power failure: of what was not synced, any
\* part; a record partly written does not parse.  (A record of which not even
\* a whole header is left is as good as absent.)
Outcomes ==
  LET old == durable
      new == file
      Cells(i) == IF i <= Len(old) /\ i <= Len(new) /\ old[i] = new[i] THEN {new[i]}
                  ELSE (IF i <= Len(old) THEN {old[i]} ELSE {Bad}) \cup
                       (IF i <= Len(new) THEN {new[i]} ELSE {})
      lengths == IF Len(new) < Len(old) THEN {Len(new), Len(old)} ELSE Len(old)..Len(new)
  IN UNION {{f \in [1..n -> 0..MaxOps] : \A i \in 1..n : f[i] \in Cells(i)} : n \in lengths}

PowerFailure ==
  /\ budget.crashes > 0
  /\ budget' = [budget EXCEPT !.crashes = @ - 1]
  /\ \E f \in Outcomes : file' = f /\ durable' = f
  /\ open' = FALSE /\ mounted' = FALSE
  /\ pending' = <<>> /\ buffer' = <<>> /\ pos' = 0
  /\ lock' = NoOne
  /\ pc' = [t \in Procs |-> IF t = Owner THEN "closed" ELSE "idle"]
  /\ rec' = [w \in Writers |-> Bad]
  /\ batch' = [t \in Procs |-> <<>>]
  /\ after' = "join" /\ signalled' = {}
  /\ UNCHANGED <<mode, ops, acked, before, retired, replayed>>
-----------------------------------------------------------------------------
Flush(t) == Drain(t) \/ WriteOut(t) \/ Sync(t) \/ Signal(t)

\* The steps a thread takes by itself once it is in a call.
Runs(t) ==
  \/ Flush(t)
  \/ t \in Writers /\ (Enqueue(t) \/ Wake(t) \/ AppendRelaxed(t))
  \/ t = Flusher /\ Tick
  \/ t = Owner /\ (Open \/ Replay \/ Truncate \/ Reseek \/ Join)

Next ==
  \/ \E t \in Procs : Runs(t) \/ Fail(t)
  \/ \E w \in Writers : Submit(w)
  \/ Checkpoint \/ CheckpointFails \/ Close \/ PowerFailure

Spec == Init /\ [][Next]_vars

\* A thread in a call goes on; the flusher's timer keeps firing.
FairSpec == Spec /\ \A t \in Procs : WF_vars(Runs(t))
-----------------------------------------------------------------------------
(* Properties *)

TypeOK ==
  /\ mode \in Modes /\ open \in BOOLEAN /\ mounted \in BOOLEAN
  /\ pending \in Seq(Op) /\ buffer \in Seq(Op)
  /\ pos \in Nat
  /\ file \in Seq(0..MaxOps) /\ durable \in Seq(0..MaxOps)
  /\ lock \in Procs \cup {NoOne}
  /\ \A t \in Procs : batch[t] \in Seq(Op)
  /\ after \in {"truncate", "join"}
  /\ signalled \subseteq Op /\ acked \subseteq Op /\ retired \subseteq Op
  /\ before \in Seq(SUBSET Op) /\ Len(before) = ops

\* The records a reader of these cells meets before the first bad one.
Readable(cells) ==
  {cells[i] : i \in {j \in DOMAIN cells : \A k \in 1..j : cells[k] # Bad}}

\* "Committed = on persistent storage": outside Relaxed mode the record of a
\* transaction that was answered Ok is on the disk, ahead of anything that does
\* not parse, until it has been replayed or truncated by a checkpoint;
\* whatever failed, and whoever wrote it out.
AckedReadable ==
  mode # "relaxed" => acked \subseteq Readable(durable) \cup retired

\* Outside Relaxed mode a transaction that began after another was answered
\* comes after it in the file, although batches may be written out in another
\* order than they were queued in; records a checkpoint has done with apart.
RealTimeOrder ==
  mode # "relaxed" =>
    \A i, j \in DOMAIN file :
      /\ i < j
      /\ {file[i], file[j]} \cap (retired \cup {Bad}) = {}
      => file[j] \notin before[file[i]]

\* A record is written once, even when its flush failed half-way.
WrittenOnce ==
  TypeOK /\ \A i, j \in DOMAIN file : file[i] = file[j] /\ file[i] # Bad => i = j

\* A call of write_transaction returns, unless a flush failed or the journal
\* was closed meanwhile.
WritersReturn ==
  \A w \in Writers :
    pc[w] # "idle" ~> pc[w] = "idle" \/ budget.errors < MaxErrors \/ ~open

\* What the documentation promises of recovery ("skip corrupted records",
\* "replay in order"): outside Relaxed mode a mount replays every transaction
\* that was answered Ok and not checkpointed.
Recoverable ==
  mode # "relaxed" /\ pc[Owner] = "failed" /\ replayed = <<Bad>> => acked \subseteq retired
=============================================================================
