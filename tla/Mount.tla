------------------------------- MODULE Mount --------------------------------
(***************************************************************************)
(* How a mounted file system is taken down: ShutdownSignal and its signal  *)
(* handlers (signal.rs) with the polling loop of mount_with_signals        *)
(* (fuse_shim.rs) and mount_versioned_fs_with_signals (versioned_fuse.rs). *)
(* The other ways to mount are the same session without the loop.  (The    *)
(* loop does not notice a session that ended otherwise: UnmountOutside     *)
(* leaves it polling.  Nothing in the sources uses ShutdownGuard.)         *)
(*                                                                         *)
(* A signal handler interrupts any thread between its two stores, so its   *)
(* steps interleave with the loop and with the handler of another signal.  *)
(* The session itself belongs to fuser: it serves requests on a thread of  *)
(* its own until it is dropped or the directory is unmounted from outside. *)
(***************************************************************************)
EXTENDS Naturals

CONSTANTS Signals  \* the numbers of SIGINT, SIGTERM, SIGHUP

ASSUME SignalsAssumption == Signals \subseteq Nat \ {0}

VARIABLES
  signaled,   \* ShutdownSignal.signaled
  signalNum,  \* ShutdownSignal.signal_num
  handler,    \* per signal: "none", "number" (stored), "done"
  loop,       \* the mounting thread: "none", "poll", "report", "drop", "returned"
  session,    \* "none", "live", "ended"
  reported    \* the number the loop read for its message

mountVars == <<signaled, signalNum, handler, loop, session, reported>>

MountInit ==
  /\ signaled = FALSE /\ signalNum = 0
  /\ handler = [s \in Signals |-> "none"]
  /\ loop = "none" /\ session = "none" /\ reported = 0

\* mount_with_signals: the handlers are installed, then the session spawned.
\* spawn_mount (and mount, whose thread is the session) have no loop.
StartMount(polls) ==
  /\ session = "none"
  /\ session' = "live"
  /\ loop' = IF polls THEN "poll" ELSE "none"
  /\ UNCHANGED <<signaled, signalNum, handler, reported>>

\* Mutant: trigger sets the flag without the number.
FlagOnly(s) ==
  /\ loop # "none" /\ handler[s] = "none"
  /\ signaled' = TRUE
  /\ handler' = [handler EXCEPT ![s] = "number"]
  /\ UNCHANGED <<signalNum, loop, session, reported>>

\* trigger: the number, then the flag.
StoreNumber(s) ==
  /\ loop # "none" /\ handler[s] = "none"
  /\ signalNum' = s
  /\ handler' = [handler EXCEPT ![s] = "number"]
  /\ UNCHANGED <<signaled, loop, session, reported>>

StoreFlag(s) ==
  /\ handler[s] = "number"
  /\ signaled' = TRUE
  /\ handler' = [handler EXCEPT ![s] = "done"]
  /\ UNCHANGED <<signalNum, loop, session, reported>>

\* The loop looks at the flag only.
Poll ==
  /\ loop = "poll" /\ signaled
  /\ loop' = "report"
  /\ UNCHANGED <<signaled, signalNum, handler, session, reported>>

Report ==
  /\ loop = "report"
  /\ reported' = signalNum
  /\ loop' = "drop"
  /\ UNCHANGED <<signaled, signalNum, handler, session>>

\* Mutant: the function returns and the session is leaked.
LeakSession ==
  /\ loop = "drop"
  /\ loop' = "returned"
  /\ UNCHANGED <<signaled, signalNum, handler, session, reported>>

DropSession ==
  /\ loop = "drop"
  /\ session' = "ended"
  /\ loop' = "returned"
  /\ UNCHANGED <<signaled, signalNum, handler, reported>>

\* fusermount -u, or the owner of a spawned session dropping it.
UnmountOutside ==
  /\ session = "live"
  /\ session' = "ended"
  /\ UNCHANGED <<signaled, signalNum, handler, loop, reported>>

Loop == Poll \/ Report \/ DropSession

Handlers == \E s \in Signals : StoreNumber(s) \/ StoreFlag(s)

MountNext == (\E polls \in BOOLEAN : StartMount(polls)) \/ Handlers \/ Loop \/ UnmountOutside

\* The loop wakes every 100 ms, and a handler runs to its end.
MountFairness == WF_mountVars(Loop) /\ \A s \in Signals : WF_mountVars(StoreFlag(s))

MountSpec == MountInit /\ [][MountNext]_mountVars /\ MountFairness
-----------------------------------------------------------------------------
\* "Received SIGTERM - unmounting": the message names a signal that arrived,
\* whichever handlers run between the stores of another and the loop's reads.
ReportedArrived ==
  loop \in {"drop", "returned"} => reported \in Signals /\ handler[reported] # "none"

\* A signal takes the mount down: the session has ended and the function that
\* mounted it returns.
SignalUnmounts ==
  \A s \in Signals :
    handler[s] = "number" ~> loop = "returned" /\ session = "ended"
=============================================================================
